---- MODULE Spec2Model ----
(***************************************************************************)
(* pixivo: the scripts of its pages (like, comment, image modal, masonry   *)
(* grid) and the route handlers they talk to.                              *)
(*                                                                         *)
(*   Spec        the post page (like buttons, window.toggleLike, the       *)
(*               post-comment control) with POST /posts/:id/like and       *)
(*               POST /posts/:id/comments, requests running concurrently   *)
(*   LiveSpec    Spec with the fairness of the event loop, the network and *)
(*               the server                                                *)
(*   SpecFollow  POST /users/:username/follow, requests running            *)
(*               concurrently                                              *)
(*   SpecSeq     like and follow toggles handled one request at a time     *)
(*   SpecWeb     one session's requests through isLoggedIn and the routes  *)
(*               of the three routers, database calls that may throw       *)
(*   SpecUpload  POST /upload and /fileupload with the forms a session     *)
(*               may send                                                  *)
(*   SpecPages   page / limit / skip / totalPages of the paginated routes  *)
(*   SpecGallery the image modal of script.js                              *)
(*   SpecClicks  the modal with the clicks in its image area               *)
(*   SpecGrid    resizeMasonryGrid                                         *)
(*                                                                         *)
(* Every await of the source is a point where other events may run, so a   *)
(* handler is one action per stretch of code between two awaits.  The      *)
(* continuation of an await whose promise is already settled is a          *)
(* microtask: it runs before any other event.                              *)
(***************************************************************************)
EXTENDS Integers, Sequences, FiniteSets, TLC

\* ------------------------------------------------------------------ bounds
\* sessions other than the page's that send requests at the same time
MaxExt == 1
\* requests started in one behaviour of Spec and SpecFollow: clicks,
\* toggleLike calls, requests of other sessions
MaxTriggers == 2
\* requests handled in one behaviour of SpecSeq
MaxSeqRequests == 3

\* ------------------------------------------------------------- universe
Users == {"u1", "u2"}
\* the user whose session the page runs in
Me == "u1"
Posts == {"p1"}
\* likeBtn: <button id="likeBtn-p1">, dataBtn: <... data-like-button data-post-id="p1">
Buttons == {"likeBtn", "dataBtn"}
PageOrigins == Buttons \cup {"toggleLike", "postComment"}
ExtNames == <<"ext1", "ext2", "ext3">>
ExtSlots == {ExtNames[i] : i \in 1..MaxExt}
OtherUsers == Users \ {Me}
\* the session whose requests SpecWeb follows through isLoggedIn and the route
WebOrigin == "web"
Origins == PageOrigins \cup ExtSlots \cup {WebOrigin}
PostOf(b) == "p1"

Max(a, b) == IF a >= b THEN a ELSE b
Range(s) == {s[i] : i \in 1..Len(s)}

\* ---------------------------------------------------------------- text
\* what may stand in the comment input: nothing, blanks, a text between blanks
Inputs == {<<>>, <<" ", "\t">>, <<" ", "a", "b", " ">>}
IsSpace(c) == c \in {" ", "\t", "\n"}
\* every character of t is white space
IsBlank(t) == \A i \in 1..Len(t) : IsSpace(t[i])

RECURSIVE TrimStart(_)
TrimStart(s) == IF s # <<>> /\ IsSpace(Head(s)) THEN TrimStart(Tail(s)) ELSE s
RECURSIVE TrimEnd(_)
TrimEnd(s) ==
    IF s # <<>> /\ IsSpace(s[Len(s)]) THEN TrimEnd(SubSeq(s, 1, Len(s) - 1)) ELSE s
\* faulty variant: the text as typed
TrimNothing(s) == s
\* String.prototype.trim
Trim(s) == TrimEnd(TrimStart(s))

\* ------------------------------------------------------------ responses
\* What fetch() hands to the page: a Response (status, redirected, content
\* type, body as it parses) or a rejection (the error's name / message).
NoComment == [text |-> <<>>, user |-> ""]
NoData == [success |-> FALSE, liked |-> FALSE, hasCount |-> FALSE, likesCount |-> 0,
           error |-> "", hasComment |-> FALSE, comment |-> NoComment]
Response(status, json, parses, data) ==
    [kind |-> "response", status |-> status, redirected |-> FALSE, json |-> json,
     parses |-> parses, data |-> data]
Json(status, data) == Response(status, TRUE, TRUE, data)
ErrorJson(status, msg) == Json(status, [NoData EXCEPT !.error = msg])
Rejection(name) ==
    [kind |-> name, status |-> 0, redirected |-> FALSE, json |-> FALSE, parses |-> FALSE,
     data |-> NoData]
NoResponse == Rejection("none")
\* answers no handler of src/ sends to an XHR request: an intermediary's
\* error page, an HTML page with status 200, a body that is no JSON, JSON
\* without success (with and without an error string)
Malformed ==
    { Response(502, FALSE, FALSE, NoData),
      Response(200, FALSE, FALSE, NoData),
      Response(200, TRUE, FALSE, NoData),
      Json(200, NoData),
      ErrorJson(200, "Refused") }
\* a redirect that fetch followed (the login page), and success without a comment
MalformedComment ==
    { [Response(200, FALSE, FALSE, NoData) EXCEPT !.redirected = TRUE],
      Json(200, [NoData EXCEPT !.success = TRUE]) }
\* fetch rejects: the network failed, or the request was aborted
Rejections == {Rejection("TypeError"), Rejection("AbortError")}

\* res.ok
Ok(res) == res.status >= 200 /\ res.status <= 299

\* ------------------------------------------------------------------- state
VARIABLES
    \* the post page
    variant,        \* which copy of the page script runs: "part_000" or "postscript"
    pressed,        \* aria-pressed of each like button
    disabled,       \* btn.disabled of each like button
    likeCount,      \* the number shown in #likeCount-<post>
    pendingLikes,   \* keys of the pendingLikes Map
    hnd,            \* the running handleLikeAction / handleLikeClick call of each button
    tl,             \* the running window.toggleLike call
    input,          \* value of #commentInput-<post>
    list,           \* children of #commentList-<post>, first child first
    commentCount,   \* the number shown in #commentCount-<post>
    postDisabled,   \* postButton.disabled
    cm,             \* the running click handler of postButton
    navigated,      \* window.location was assigned
    toasted,        \* the message the last step passed to toast(), "" if none
    ended,          \* the origin whose handler returned in the last step, "" if none
    \* the database
    likes,          \* post.likes
    comments,       \* post.comments
    followers,      \* user.followers
    following,      \* user.following
    \* the server
    sreq,           \* requests inside POST /posts/:id/like and /posts/:id/comments
    freq,           \* requests inside POST /users/:username/follow
    web,            \* the request inside isLoggedIn and the other routes (SpecWeb)
    docs,           \* what /fileupload and /upload write: profileimage, posts
    \* pure computations and the other page scripts
    pg,             \* a paginated request and the pagination computed for it
    modal,          \* the image modal of script.js: gallery, currentIndex, ...
    grid,           \* a masonry grid: row height, gap, items and their spans
    \* bookkeeping of the model
    obs,            \* the toggle pair now being watched (SpecSeq)
    triggers        \* requests started so far

pageVars == <<variant, pressed, disabled, likeCount, pendingLikes, hnd, tl, input, list,
              commentCount, postDisabled, cm, navigated, toasted, ended>>
postVars == <<likes, comments, sreq>>
userVars == <<followers, following, freq>>
webVars == <<web, docs>>
sideVars == <<pg, modal, grid>>
vars == <<pageVars, postVars, userVars, obs, triggers, webVars, sideVars>>

\* a handler call: where it stands, the locals it captured, the Response or
\* rejection it was handed. list0 and count0 are not locals of the code: they
\* remember the comment list and counter as they were before the click.
Idle == [pc |-> "idle", wasLiked |-> FALSE, prevCount |-> 0, optimistic |-> 0,
         text |-> <<>>, tempId |-> 0, list0 |-> <<>>, count0 |-> 0, res |-> NoResponse]

\* a request inside a route handler: where it stands, req.user, req.params.id,
\* req.body.text, what it computed from the document it loaded, its answer
NoReq == [pc |-> "none", user |-> Me, post |-> "p1", text |-> <<>>, alreadyLiked |-> FALSE,
          count |-> 0, res |-> NoResponse]

\* A continuation that the event loop runs before any other event.
Microtask ==
    \/ \E b \in Buttons : hnd[b].pc \in {"rejected", "settled"}
    \/ tl.pc = "settled"
    \/ cm.pc = "settled"

\* the fetch of page origin o is out and has not settled
Waiting(o) ==
    CASE o \in Buttons -> hnd[o].pc = "await"
      [] o = "toggleLike" -> tl.pc = "await"
      [] o = "postComment" -> cm.pc = "await"
      [] OTHER -> FALSE

\* what the network may hand to the waiting fetch of origin o: the route's
\* answer once there is one, or a rejection in its place (the answer is
\* lost); a malformed answer or a rejection when the request never reached
\* the route
Settlements(o, malformed) ==
    CASE sreq[o].pc = "done" -> {sreq[o].res} \cup Rejections
      [] sreq[o].pc = "none" -> malformed \cup Rejections
      [] OTHER -> {}

\* ------------------------------------------------- like button, page side
\* the delegated click listener of part_000 matches [id^="likeBtn-"] and
\* [data-like-button]; postscript wires [id^="likeBtn-"] only
Wired(b) == b = "likeBtn" \/ variant = "part_000"

\* what a stretch of a handler does to the page: setLikeUI(btn, liked, count)
\* when set, toast(msg) when msg # ""
UI(set, liked, count, msg) == [set |-> set, liked |-> liked, count |-> count, toast |-> msg]
\* faulty variant: the message without the rollback
RollbackToastOnly(h, msg) == UI(FALSE, FALSE, 0, msg)
Rollback(h, msg) == UI(TRUE, h.wasLiked, h.prevCount, msg)
Nothing == UI(FALSE, FALSE, 0, "")

\* faulty variant: no Math.max
optimisticCountUnclamped(wasLiked, prevCount) ==
    IF wasLiked THEN prevCount - 1 ELSE prevCount + 1
\* wasLiked ? Math.max(0, prevCount - 1) : prevCount + 1
optimisticCount(wasLiked, prevCount) ==
    IF wasLiked THEN Max(0, prevCount - 1) ELSE prevCount + 1

\* faulty variant: no request is refused
postLikeRequestAlways(postId) == "fetch"
\* postLikeRequest refuses while the Map holds the key
postLikeRequest(postId) == IF postId \in pendingLikes THEN "pending" ELSE "fetch"

\* faulty variant: the 401 branch leaves without the finally block
LikeOnResponseNoFinally(h, res) ==
    IF res.status = 401
        THEN [next |-> "returned", ui |-> Rollback(h, "Login required to like posts")]
    ELSE IF ~Ok(res) \/ ~res.json
        THEN [next |-> "idle", ui |-> Rollback(h, "Could not update like. Try again.")]
    ELSE [next |-> "json", ui |-> Nothing]

\* handleLikeAction after `await postLikeRequest(postId)` gave a Response:
\* next is "json" when it goes on to read the body
LikeOnResponse(h, res) ==
    IF res.status = 401
        THEN [next |-> "idle", ui |-> Rollback(h, "Login required to like posts")]
    ELSE IF ~Ok(res) \/ ~res.json
        THEN [next |-> "idle", ui |-> Rollback(h, "Could not update like. Try again.")]
    ELSE [next |-> "json", ui |-> Nothing]

\* faulty variant: the server's error string is never shown
LikeOnDataGeneric(h, res) ==
    IF ~res.parses \/ ~res.data.success
        THEN Rollback(h, "Failed to update like")
    ELSE UI(TRUE, res.data.liked,
            IF res.data.hasCount THEN res.data.likesCount ELSE h.optimistic, "")

\* faulty variant: the optimistic count is kept on success
LikeOnDataOptimistic(h, res) ==
    IF ~res.parses \/ ~res.data.success
        THEN Rollback(h, IF res.parses /\ res.data.error # ""
                            THEN res.data.error ELSE "Failed to update like")
    ELSE UI(TRUE, res.data.liked, h.optimistic, "")

\* ... after `await res.json().catch(() => null)`
LikeOnData(h, res) ==
    IF ~res.parses \/ ~res.data.success
        THEN Rollback(h, IF res.parses /\ res.data.error # ""
                            THEN res.data.error ELSE "Failed to update like")
    ELSE UI(TRUE, res.data.liked,
            IF res.data.hasCount THEN res.data.likesCount ELSE h.optimistic, "")

\* faulty variant: every rejection is rolled back
LikeOnErrorRollsBack(v, h, err) == Rollback(h, "Network error")
\* ... the catch block; postscript has no case for AbortError or 'pending'
LikeOnError(v, h, err) ==
    IF v = "part_000" /\ err.kind = "AbortError" THEN Nothing
    ELSE IF v = "part_000" /\ err.kind = "pending" THEN Nothing
    ELSE Rollback(h, "Network error")

\* setLikeUI applied to the page
setLikeUI(b, ui) ==
    /\ pressed' = IF ui.set THEN [pressed EXCEPT ![b] = ui.liked] ELSE pressed
    /\ likeCount' = IF ui.set THEN [likeCount EXCEPT ![PostOf(b)] = ui.count] ELSE likeCount

\* a click on a like button: handleLikeAction up to its first await
ClickLike(b) ==
    /\ ~Microtask
    /\ Wired(b)
    /\ ~disabled[b]
    /\ LET wasLiked == pressed[b]
           prevCount == likeCount[PostOf(b)]
           optimistic == optimisticCount(wasLiked, prevCount)
           dup == variant = "part_000" /\ postLikeRequest(PostOf(b)) = "pending"
       IN  /\ pressed' = [pressed EXCEPT ![b] = ~wasLiked]
           /\ likeCount' = [likeCount EXCEPT ![PostOf(b)] = optimistic]
           /\ disabled' = [disabled EXCEPT ![b] = TRUE]
           /\ hnd' = [hnd EXCEPT ![b] =
                        [Idle EXCEPT !.pc = IF dup THEN "rejected" ELSE "await",
                                     !.wasLiked = wasLiked, !.prevCount = prevCount,
                                     !.optimistic = optimistic,
                                     !.res = IF dup THEN Rejection("pending") ELSE NoResponse]]
           /\ pendingLikes' = IF variant = "part_000" /\ ~dup
                                 THEN pendingLikes \cup {PostOf(b)} ELSE pendingLikes
    /\ toasted' = "" /\ ended' = ""
    /\ UNCHANGED <<variant, tl, input, list, commentCount, postDisabled, cm, navigated>>
    /\ UNCHANGED <<postVars, userVars>>

\* the fetch of b's handler settles, an event like any other: it waits for
\* the continuations that are ready.  In part_000 its .finally() removes the
\* key from pendingLikes before the handler continues
FetchSettle(b) ==
    /\ ~Microtask
    /\ hnd[b].pc = "await"
    /\ \E res \in Settlements(b, Malformed) :
         hnd' = [hnd EXCEPT ![b].pc = "settled", ![b].res = res]
    /\ pendingLikes' = IF variant = "part_000"
                          THEN pendingLikes \ {PostOf(b)} ELSE pendingLikes
    /\ sreq' = [sreq EXCEPT ![b] = NoReq]
    /\ toasted' = "" /\ ended' = ""
    /\ UNCHANGED <<variant, pressed, disabled, likeCount, tl, input, list, commentCount,
                   postDisabled, cm, navigated>>
    /\ UNCHANGED <<likes, comments, userVars>>

\* the handler continues after the fetch: rejected (catch, finally), or a
\* Response (401, bad status / content type, or on to res.json())
LikeAfterFetch(b) ==
    /\ hnd[b].pc \in {"rejected", "settled"}
    /\ LET h == hnd[b]
           step == IF h.res.kind # "response"
                      THEN [next |-> "idle", ui |-> LikeOnError(variant, h, h.res)]
                      ELSE LikeOnResponse(h, h.res)
       IN  /\ setLikeUI(b, step.ui)
           /\ hnd' = [hnd EXCEPT ![b] = IF step.next = "idle" THEN Idle
                                         ELSE [h EXCEPT !.pc = step.next]]
           /\ disabled' = [disabled EXCEPT ![b] = step.next # "idle"]
           /\ toasted' = step.ui.toast
           /\ ended' = IF step.next = "idle" THEN b ELSE ""
    /\ UNCHANGED <<variant, pendingLikes, tl, input, list, commentCount, postDisabled, cm,
                   navigated>>
    /\ UNCHANGED <<postVars, userVars>>

\* the body has been read: the rest of the try block, then finally
LikeAfterJson(b) ==
    /\ ~Microtask
    /\ hnd[b].pc = "json"
    /\ LET ui == LikeOnData(hnd[b], hnd[b].res)
       IN  /\ setLikeUI(b, ui)
           /\ toasted' = ui.toast
    /\ ended' = b
    /\ hnd' = [hnd EXCEPT ![b] = Idle]
    /\ disabled' = [disabled EXCEPT ![b] = FALSE]
    /\ UNCHANGED <<variant, pendingLikes, tl, input, list, commentCount, postDisabled, cm,
                   navigated>>
    /\ UNCHANGED <<postVars, userVars>>

\* ------------------------------------------------------- window.toggleLike
\* toggleLike(postId) on the page of post p1, one call at a time
ToggleLikeCall ==
    /\ ~Microtask
    /\ tl.pc = "idle"
    /\ tl' = [Idle EXCEPT !.pc = "await"]
    /\ toasted' = "" /\ ended' = ""
    /\ UNCHANGED <<variant, pressed, disabled, likeCount, pendingLikes, hnd, input, list,
                   commentCount, postDisabled, cm, navigated>>
    /\ UNCHANGED <<postVars, userVars>>

TlSettle ==
    /\ ~Microtask
    /\ tl.pc = "await"
    /\ \E res \in Settlements("toggleLike", Malformed) :
         tl' = [tl EXCEPT !.pc = "settled", !.res = res]
    /\ sreq' = [sreq EXCEPT !["toggleLike"] = NoReq]
    /\ toasted' = "" /\ ended' = ""
    /\ UNCHANGED <<variant, pressed, disabled, likeCount, pendingLikes, hnd, input, list,
                   commentCount, postDisabled, cm, navigated>>
    /\ UNCHANGED <<likes, comments, userVars>>

\* toggleLike after `await fetch(...)`
TlOnResponse(res) ==
    IF res.kind # "response" THEN [next |-> "idle", toast |-> "Network error"]
    ELSE IF res.status = 401 THEN [next |-> "idle", toast |-> "Login required to like posts"]
    ELSE IF ~Ok(res) \/ ~res.json
        THEN [next |-> "idle", toast |-> "Could not update like. Try again."]
    ELSE [next |-> "json", toast |-> ""]

\* toggleLike after the body was read: part_000 reads it with .catch(() => null),
\* postscript lets the parse error reach its catch block
TlOnData(v, res) ==
    IF res.parses /\ res.data.success THEN UI(TRUE, res.data.liked, res.data.likesCount, "")
    ELSE IF ~res.parses /\ v = "postscript" THEN UI(FALSE, FALSE, 0, "Network error")
    ELSE UI(FALSE, FALSE, 0, "Could not update like. Try again.")

TlAfterFetch ==
    /\ tl.pc = "settled"
    /\ LET step == TlOnResponse(tl.res)
       IN  /\ tl' = IF step.next = "idle" THEN Idle ELSE [tl EXCEPT !.pc = "json"]
           /\ toasted' = step.toast
           /\ ended' = IF step.next = "idle" THEN "toggleLike" ELSE ""
    /\ UNCHANGED <<variant, pressed, disabled, likeCount, pendingLikes, hnd, input, list,
                   commentCount, postDisabled, cm, navigated>>
    /\ UNCHANGED <<postVars, userVars>>

\* on success it writes #likeCount-<id> and aria-pressed of #likeBtn-<id>
TlAfterJson ==
    /\ ~Microtask
    /\ tl.pc = "json"
    /\ LET ui == TlOnData(variant, tl.res)
       IN  /\ setLikeUI("likeBtn", ui)
           /\ toasted' = ui.toast
    /\ ended' = "toggleLike"
    /\ tl' = Idle
    /\ UNCHANGED <<variant, disabled, pendingLikes, hnd, input, list, commentCount,
                   postDisabled, cm, navigated>>
    /\ UNCHANGED <<postVars, userVars>>

\* -------------------------------------------------- comment form, page side
\* an entry of the comment list; a speculative node has the id
\* comment-temp-<time of the click>, the others have none the script looks up
Confirmed(user, text) == [temp |-> FALSE, at |-> 0, user |-> user, text |-> text]
Speculative(tempId, user, text) == [temp |-> TRUE, at |-> tempId, user |-> user, text |-> text]
\* now(): no two clicks at the same time; the clock is the count of requests
\* started so far
now == triggers
\* faulty variant: the speculative node stays
RemoveTempNever(l, tempId) == l
\* document.getElementById(`comment-${tempId}`)?.remove()
RemoveTemp(l, tempId) == SelectSeq(l, LAMBDA e : ~(e.temp /\ e.at = tempId))
\* list.prepend(node)
Prepend(l, e) == <<e>> \o l
\* Math.max(0, (+cc.textContent || 1) - 1)
RollbackCount(c) == Max(0, (IF c = 0 THEN 1 ELSE c) - 1)

\* the comment handler after `await fetch(...)`: where it goes next ("idle":
\* it returns through finally), whether it navigates, what it toasts
CommentOnResponse(res) ==
    IF res.kind # "response"
        THEN [next |-> "idle", nav |-> FALSE, fail |-> TRUE, toast |-> "Network error"]
    ELSE IF res.redirected
        THEN [next |-> "idle", nav |-> TRUE, fail |-> FALSE, toast |-> ""]
    ELSE IF ~Ok(res) /\ res.json
        THEN [next |-> "errjson", nav |-> FALSE, fail |-> FALSE, toast |-> ""]
    ELSE IF ~Ok(res)
        THEN [next |-> "idle", nav |-> FALSE, fail |-> TRUE, toast |-> "Failed to post comment"]
    ELSE IF ~res.json
        THEN [next |-> "idle", nav |-> FALSE, fail |-> TRUE,
              toast |-> "Unexpected server response"]
    ELSE [next |-> "json", nav |-> FALSE, fail |-> FALSE, toast |-> ""]

\* errMsg after `await res.json().catch(() => null)` of a non-2xx answer
CommentErrMsg(res) ==
    IF res.parses /\ res.data.error # "" THEN res.data.error ELSE "Failed to post comment"

\* after `await res.json()` of a 2xx answer: part_000 reads the body with
\* .catch(() => null), postscript lets the parse error reach its catch block
CommentOnData(v, res) ==
    IF res.parses /\ res.data.success /\ res.data.hasComment
        THEN [fail |-> FALSE, toast |-> ""]
    ELSE IF ~res.parses /\ v = "postscript"
        THEN [fail |-> TRUE, toast |-> "Network error"]
    ELSE [fail |-> TRUE,
          toast |-> IF res.parses /\ res.data.error # "" THEN res.data.error
                    ELSE "Failed to post comment"]

\* the end of a comment handler: the speculative node goes; on failure the
\* counter is taken back, on success the server's comment is prepended; then
\* the finally block
CommentEnd(h, fail, msg) ==
    /\ list' = IF fail THEN RemoveTemp(list, h.tempId)
               ELSE Prepend(RemoveTemp(list, h.tempId),
                            Confirmed(h.res.data.comment.user, h.res.data.comment.text))
    /\ commentCount' = IF fail THEN RollbackCount(commentCount) ELSE commentCount
    /\ postDisabled' = FALSE
    /\ input' = <<>>
    /\ cm' = Idle
    /\ toasted' = msg
    /\ ended' = "postComment"

\* the user has typed t and clicks Post: the handler up to its first await.
\* With nothing but blanks in the input the handler returns at once.
ClickPost(t) ==
    /\ ~Microtask
    /\ ~postDisabled
    /\ input' = t
    /\ LET text == Trim(t)
       IN  IF text = <<>>
             THEN UNCHANGED <<list, commentCount, postDisabled, cm>>
             ELSE /\ postDisabled' = TRUE
                  /\ list' = Prepend(list, Speculative(now, Me, text))
                  /\ commentCount' = commentCount + 1
                  /\ cm' = [Idle EXCEPT !.pc = "await", !.text = text, !.tempId = now,
                                        !.list0 = list, !.count0 = commentCount]
    /\ toasted' = "" /\ ended' = ""
    /\ UNCHANGED <<variant, pressed, disabled, likeCount, pendingLikes, hnd, tl, navigated>>
    /\ UNCHANGED <<postVars, userVars>>

CmSettle ==
    /\ ~Microtask
    /\ cm.pc = "await"
    /\ \E res \in Settlements("postComment", Malformed \cup MalformedComment) :
         cm' = [cm EXCEPT !.pc = "settled", !.res = res]
    /\ sreq' = [sreq EXCEPT !["postComment"] = NoReq]
    /\ toasted' = "" /\ ended' = ""
    /\ UNCHANGED <<variant, pressed, disabled, likeCount, pendingLikes, hnd, tl, input, list,
                   commentCount, postDisabled, navigated>>
    /\ UNCHANGED <<likes, comments, userVars>>

\* the handler continues after the fetch
CmAfterFetch ==
    /\ cm.pc = "settled"
    /\ LET step == CommentOnResponse(cm.res)
       IN  /\ navigated' = (navigated \/ step.nav)
           /\ IF step.next # "idle"
                THEN /\ cm' = [cm EXCEPT !.pc = step.next]
                     /\ toasted' = "" /\ ended' = ""
                     /\ UNCHANGED <<list, commentCount, postDisabled, input>>
              ELSE IF step.nav
                \* `return` inside try: nothing but the finally block runs
                THEN /\ postDisabled' = FALSE
                     /\ input' = <<>>
                     /\ cm' = Idle
                     /\ toasted' = "" /\ ended' = "postComment"
                     /\ UNCHANGED <<list, commentCount>>
              ELSE CommentEnd(cm, step.fail, step.toast)
    /\ UNCHANGED <<variant, pressed, disabled, likeCount, pendingLikes, hnd, tl>>
    /\ UNCHANGED <<postVars, userVars>>

\* the body of a non-2xx JSON answer has been read
CmAfterErrJson ==
    /\ ~Microtask
    /\ cm.pc = "errjson"
    /\ CommentEnd(cm, TRUE, CommentErrMsg(cm.res))
    /\ UNCHANGED <<variant, pressed, disabled, likeCount, pendingLikes, hnd, tl, navigated>>
    /\ UNCHANGED <<postVars, userVars>>

\* the body of a 2xx JSON answer has been read
CmAfterJson ==
    /\ ~Microtask
    /\ cm.pc = "json"
    /\ LET out == CommentOnData(variant, cm.res)
       IN  CommentEnd(cm, out.fail, out.toast)
    /\ UNCHANGED <<variant, pressed, disabled, likeCount, pendingLikes, hnd, tl, navigated>>
    /\ UNCHANGED <<postVars, userVars>>

\* ------------------------------------------------------------- the server
\* isLoggedIn for a request that carries X-Requested-With: XMLHttpRequest
isLoggedIn(authenticated) ==
    IF authenticated THEN "next" ELSE "401"

\* faulty variant: nothing goes
PullNothing(arr, x) == arr
\* MongooseArray.pull: every occurrence goes
Pull(arr, x) == SelectSeq(arr, LAMBDA y : y # x)

\* post.save() after likes.push / likes.pull: the change is sent as an update
\* of the stored array, not as the array the handler loaded
SaveLikes(stored, r) ==
    IF r.alreadyLiked THEN Pull(stored, r.user) ELSE Append(stored, r.user)

\* post.likes.length of the handler's copy after its push / pull
LikesLength(loaded, r) ==
    IF r.alreadyLiked THEN Len(Pull(loaded, r.user)) ELSE Len(loaded) + 1

\* the route has answered; the requests of other sessions are answered to
\* those sessions: the slot is free again
Answer(o, res) == IF o \in ExtSlots THEN NoReq ELSE [NoReq EXCEPT !.pc = "done", !.res = res]

\* another session sends through the first slot that is free
FreeSlot(x) ==
    /\ sreq[x].pc = "none"
    /\ \A i, j \in 1..MaxExt : i < j /\ ExtNames[j] = x => sreq[ExtNames[i]].pc # "none"

\* the outcomes of postModel.findById: the post, null, an error
Found == {"post", "null", "throws"}

\* -------------------------------------------------- POST /posts/:id/like
\* the route up to `await post.save()` for a request of user u: isLoggedIn,
\* findById (404 on null, 500 when it throws), alreadyLiked, push / pull on
\* the loaded document
LikeRoute(o, u, authenticated, found) ==
    LET r == [NoReq EXCEPT !.user = u, !.alreadyLiked = u \in Range(likes[NoReq.post])]
    IN  CASE isLoggedIn(authenticated) # "next" ->
               Answer(o, ErrorJson(401, "Not authenticated"))
          [] found = "throws" -> Answer(o, ErrorJson(500, "Server error"))
          [] found = "null" -> Answer(o, ErrorJson(404, "Post not found"))
          [] OTHER -> [r EXCEPT !.pc = "save", !.count = LikesLength(likes[r.post], r)]

\* the like request of page origin o is handled up to the save
LikeFind(o) ==
    /\ ~Microtask
    /\ Waiting(o)
    /\ sreq[o].pc = "none"
    /\ \E authenticated \in BOOLEAN, found \in Found :
         sreq' = [sreq EXCEPT ![o] = LikeRoute(o, Me, authenticated, found)]
    /\ toasted' = "" /\ ended' = ""
    /\ UNCHANGED <<variant, pressed, disabled, likeCount, pendingLikes, hnd, tl, input, list,
                   commentCount, postDisabled, cm, navigated>>
    /\ UNCHANGED <<likes, comments, userVars>>

\* a like request of another session (any user, logged in) is handled up to
\* the save
ExtLikeFind(x, u) ==
    /\ ~Microtask
    /\ FreeSlot(x)
    /\ \E found \in Found : sreq' = [sreq EXCEPT ![x] = LikeRoute(x, u, TRUE, found)]
    /\ toasted' = "" /\ ended' = ""
    /\ UNCHANGED <<variant, pressed, disabled, likeCount, pendingLikes, hnd, tl, input, list,
                   commentCount, postDisabled, cm, navigated>>
    /\ UNCHANGED <<likes, comments, userVars>>

\* post.save() and res.json(...); a save that fails changes nothing (catch: 500)
LikeSave(o) ==
    /\ ~Microtask
    /\ sreq[o].pc = "save"
    /\ LET r == sreq[o]
       IN  \E fails \in BOOLEAN :
             IF fails
               THEN /\ sreq' = [sreq EXCEPT ![o] = Answer(o, ErrorJson(500, "Server error"))]
                    /\ UNCHANGED likes
               ELSE /\ likes' = [likes EXCEPT ![r.post] = SaveLikes(@, r)]
                    /\ sreq' = [sreq EXCEPT ![o] =
                                  Answer(o, Json(200, [NoData EXCEPT
                                                            !.success = TRUE,
                                                            !.liked = ~r.alreadyLiked,
                                                            !.hasCount = TRUE,
                                                            !.likesCount = r.count]))]
    /\ toasted' = "" /\ ended' = ""
    /\ UNCHANGED <<variant, pressed, disabled, likeCount, pendingLikes, hnd, tl, input, list,
                   commentCount, postDisabled, cm, navigated>>
    /\ UNCHANGED <<comments, userVars>>

\* ------------------------------------------------ POST /posts/:id/comments
\* faulty variant: the text is not checked
CommentRouteUnchecked(o, u, body, authenticated, found) ==
    CASE isLoggedIn(authenticated) # "next" -> Answer(o, ErrorJson(401, "Not authenticated"))
      [] found = "throws" -> Answer(o, ErrorJson(500, "Server error"))
      [] found = "null" -> Answer(o, ErrorJson(404, "Post not found"))
      [] OTHER -> [NoReq EXCEPT !.user = u, !.text = Trim(body), !.pc = "csave"]
\* faulty variant: the new comment goes to the head of the array
PushFirst(arr, c) == <<c>> \o arr
\* MongooseArray.push followed by save: the element is appended to the
\* stored array
Push(arr, c) == Append(arr, c)
\* the route up to `await post.save()`: isLoggedIn, findById, the check of
\* the trimmed text, post.comments.push
CommentRoute(o, u, body, authenticated, found) ==
    LET text == Trim(body)
        r == [NoReq EXCEPT !.user = u, !.text = text]
    IN  CASE isLoggedIn(authenticated) # "next" ->
               Answer(o, ErrorJson(401, "Not authenticated"))
          [] found = "throws" -> Answer(o, ErrorJson(500, "Server error"))
          [] found = "null" -> Answer(o, ErrorJson(404, "Post not found"))
          [] text = <<>> -> Answer(o, ErrorJson(400, "Comment text required"))
          [] OTHER -> [r EXCEPT !.pc = "csave"]

\* the comment request of the page is handled up to the save
CommentFind ==
    /\ ~Microtask
    /\ Waiting("postComment")
    /\ sreq["postComment"].pc = "none"
    /\ \E authenticated \in BOOLEAN, found \in Found :
         sreq' = [sreq EXCEPT !["postComment"] =
                    CommentRoute("postComment", Me, cm.text, authenticated, found)]
    /\ toasted' = "" /\ ended' = ""
    /\ UNCHANGED <<variant, pressed, disabled, likeCount, pendingLikes, hnd, tl, input, list,
                   commentCount, postDisabled, cm, navigated>>
    /\ UNCHANGED <<likes, comments, userVars>>

\* a comment request of another session is handled up to the save
ExtCommentFind(x, u, body) ==
    /\ ~Microtask
    /\ FreeSlot(x)
    /\ \E found \in Found :
         sreq' = [sreq EXCEPT ![x] = CommentRoute(x, u, body, TRUE, found)]
    /\ toasted' = "" /\ ended' = ""
    /\ UNCHANGED <<variant, pressed, disabled, likeCount, pendingLikes, hnd, tl, input, list,
                   commentCount, postDisabled, cm, navigated>>
    /\ UNCHANGED <<likes, comments, userVars>>

\* post.save(): the new comment is pushed onto the stored array
CommentSave(o) ==
    /\ ~Microtask
    /\ sreq[o].pc = "csave"
    /\ LET r == sreq[o]
       IN  \E fails \in BOOLEAN :
             IF fails
               THEN /\ sreq' = [sreq EXCEPT ![o] = Answer(o, ErrorJson(500, "Server error"))]
                    /\ UNCHANGED comments
               ELSE /\ comments' = [comments EXCEPT ![r.post] =
                                      Push(@, [text |-> r.text, user |-> r.user])]
                    /\ sreq' = [sreq EXCEPT ![o].pc = "reread"]
    /\ toasted' = "" /\ ended' = ""
    /\ UNCHANGED <<variant, pressed, disabled, likeCount, pendingLikes, hnd, tl, input, list,
                   commentCount, postDisabled, cm, navigated>>
    /\ UNCHANGED <<likes, userVars>>

\* the second findById(...).populate(...): the answer carries the last comment
\* of the post as it is stored now
CommentReread(o) ==
    /\ ~Microtask
    /\ sreq[o].pc = "reread"
    /\ LET r == sreq[o]
           stored == comments[r.post]
       IN  \E fails \in BOOLEAN :
             sreq' = [sreq EXCEPT ![o] =
                IF fails THEN Answer(o, ErrorJson(500, "Server error"))
                ELSE Answer(o, Json(200, [NoData EXCEPT !.success = TRUE,
                                                           !.hasComment = TRUE,
                                                           !.comment = stored[Len(stored)]]))]
    /\ toasted' = "" /\ ended' = ""
    /\ UNCHANGED <<variant, pressed, disabled, likeCount, pendingLikes, hnd, tl, input, list,
                   commentCount, postDisabled, cm, navigated>>
    /\ UNCHANGED <<likes, comments, userVars>>

\* ------------------------------------------- POST /users/:username/follow
\* user.username of the two users; the :username parameters tried: theirs, a
\* well-formed name nobody has, a name /^[\w.-]{3,30}$/ rejects
Username == [u1 |-> "ann", u2 |-> "bob"]
Params == {"ann", "bob", "nobody", "a!"}
WellFormed(name) == name \in {"ann", "bob", "nobody"}
\* userModel.findOne({ username })
FindUser(name) == {u \in Users : Username[u] = name}

\* the sessions that send follow requests at the same time: the page's and
\* the others; a request takes the first slot that is free
FollowSlots == 0..MaxExt
FreeFollowSlot(s) == freq[s].pc = "none" /\ \A i \in 0..(s - 1) : freq[i].pc # "none"
\* what the route answers: the status and the JSON body
NoFollowData == [success |-> FALSE, following |-> FALSE, followersCount |-> 0, error |-> ""]
FollowJson(status, data) == [status |-> status, data |-> data]
FollowError(status, msg) == FollowJson(status, [NoFollowData EXCEPT !.error = msg])
NoFollow == [pc |-> "none", user |-> Me, target |-> Me, alreadyFollowing |-> FALSE,
             count |-> 0, res |-> FollowJson(0, NoFollowData)]
FollowAnswer(r, res) == [r EXCEPT !.pc = "done", !.res = res]

\* faulty variant: the caller's own name is let through
FollowRouteNoSelfCheck(u, name, authenticated, throws) ==
    LET r == [NoFollow EXCEPT !.user = u]
    IN  CASE isLoggedIn(authenticated) # "next" ->
               FollowAnswer(r, FollowError(401, "Not authenticated"))
          [] ~WellFormed(name) -> FollowAnswer(r, FollowError(400, "Invalid username"))
          [] throws -> FollowAnswer(r, FollowError(500, "Server error"))
          [] FindUser(name) = {} -> FollowAnswer(r, FollowError(404, "User not found"))
          [] OTHER ->
               LET target == CHOOSE t \in FindUser(name) : TRUE
               IN  [r EXCEPT !.pc = "target", !.target = target,
                             !.alreadyFollowing = u \in followers[target]]
\* the route up to its first update, for a request of user u for :username
\* name: isLoggedIn, the checks of the name, findOne (404 on null, 500 when
\* it throws), alreadyFollowing.  (followLimiter lets 10 requests a minute
\* through, more than any behaviour here sends.)
FollowRoute(u, name, authenticated, throws) ==
    LET r == [NoFollow EXCEPT !.user = u]
    IN  CASE isLoggedIn(authenticated) # "next" ->
               FollowAnswer(r, FollowError(401, "Not authenticated"))
          [] ~WellFormed(name) -> FollowAnswer(r, FollowError(400, "Invalid username"))
          [] Username[u] = name -> FollowAnswer(r, FollowError(400, "Cannot follow yourself"))
          [] throws -> FollowAnswer(r, FollowError(500, "Server error"))
          [] FindUser(name) = {} -> FollowAnswer(r, FollowError(404, "User not found"))
          [] OTHER ->
               LET target == CHOOSE t \in FindUser(name) : TRUE
               IN  [r EXCEPT !.pc = "target", !.target = target,
                             !.alreadyFollowing = u \in followers[target]]

\* a follow request of session s is handled up to its first update
FollowFind(s, u, name) ==
    /\ FreeFollowSlot(s)
    /\ \E authenticated \in BOOLEAN, throws \in BOOLEAN :
         freq' = [freq EXCEPT ![s] = FollowRoute(u, name, authenticated, throws)]
    /\ UNCHANGED <<followers, following>>
    /\ UNCHANGED <<pageVars, postVars>>

\* $pull / $addToSet
UpdateSet(set, x, remove) == IF remove THEN set \ {x} ELSE set \cup {x}

\* findByIdAndUpdate(target._id, { $pull | $addToSet: { followers: meId } },
\* { new: true }): followersCount is the length of what it returns
FollowUpdateTarget(s) ==
    /\ freq[s].pc = "target"
    /\ LET r == freq[s]
           updated == UpdateSet(followers[r.target], r.user, r.alreadyFollowing)
       IN  \E fails \in BOOLEAN :
             IF fails
               THEN /\ freq' = [freq EXCEPT ![s] =
                                  FollowAnswer(r, FollowError(500, "Server error"))]
                    /\ UNCHANGED followers
               ELSE /\ followers' = [followers EXCEPT ![r.target] = updated]
                    /\ freq' = [freq EXCEPT ![s] =
                                  [r EXCEPT !.pc = "me", !.count = Cardinality(updated)]]
    /\ UNCHANGED following
    /\ UNCHANGED <<pageVars, postVars>>

\* findByIdAndUpdate(meId, { $pull | $addToSet: { following: target._id } })
\* and res.json(...)
FollowUpdateMe(s) ==
    /\ freq[s].pc = "me"
    /\ LET r == freq[s]
       IN  \E fails \in BOOLEAN :
             IF fails
               THEN /\ freq' = [freq EXCEPT ![s] =
                                  FollowAnswer(r, FollowError(500, "Server error"))]
                    /\ UNCHANGED following
               ELSE /\ following' = [following EXCEPT ![r.user] =
                                       UpdateSet(@, r.target, r.alreadyFollowing)]
                    /\ freq' = [freq EXCEPT ![s] =
                                  FollowAnswer(r, FollowJson(200, [NoFollowData EXCEPT
                                                    !.success = TRUE,
                                                    !.following = ~r.alreadyFollowing,
                                                    !.followersCount = r.count]))]
    /\ UNCHANGED followers
    /\ UNCHANGED <<pageVars, postVars>>

\* the answer has left: the session may send its next request
FollowRespond(s) ==
    /\ freq[s].pc = "done"
    /\ freq' = [freq EXCEPT ![s] = NoFollow]
    /\ UNCHANGED <<followers, following>>
    /\ UNCHANGED <<pageVars, postVars>>


\* ---------------------------------------------- isLoggedIn and the routers
\* The three routers of src/: part_002 (the same middleware stands in
\* routes/posts.js:549), the router at the head of routes/posts.js, and
\* routes/index.js.
Files == {"part_002", "posts.js", "index.js"}
Routes == {"like", "comment", "follow", "upload", "fileupload", "feed", "profile", "allpins"}
\* routes/index.js has no like, comment or follow route
Serves(file, route) == file # "index.js" \/ route \notin {"like", "comment", "follow"}
\* the routes that write documents
Mutating == {"like", "comment", "follow", "upload", "fileupload"}

\* the request headers isLoggedIn looks at
XRequestedWith == {"", "XMLHttpRequest"}
Accepts == {"text/html", "application/json"}
\* req.xhr
xhr(xrw) == xrw = "XMLHttpRequest"

\* what a route or a middleware answers: res.status(..).json({ error }),
\* .send(text), res.redirect(location), res.render(view); "next" when the
\* middleware calls next(), "escaped" when the handler's promise rejects
\* with nothing sent
WebRes(status, kind, body) == [status |-> status, kind |-> kind, body |-> body]
NoWebRes == WebRes(0, "none", "")
PassedOn == WebRes(0, "next", "")
Escaped == WebRes(0, "escaped", "")

isLoggedInOf(file, authenticated, xrw, accept) ==
    IF authenticated THEN PassedOn
    ELSE LET isAjax ==
               CASE file = "part_002" ->
                      xhr(xrw) \/ xrw = "XMLHttpRequest" \/ accept = "application/json"
                 [] file = "posts.js" -> xhr(xrw)
                 [] OTHER -> FALSE
         IN  IF isAjax THEN WebRes(401, "json", "Not authenticated")
             ELSE WebRes(302, "redirect", "/login")

\* req.body.text, req.body.filetitle: absent, or one of the texts
Bodies == {[has |-> FALSE, text |-> <<>>]} \cup {[has |-> TRUE, text |-> t] : t \in Inputs}
\* (req.body.text || '')
OrEmpty(body) == IF body.has THEN body.text ELSE <<>>

\* routes/posts.js:242 checks the text before it looks for the post
CommentRouteOf(file, o, u, body, found) ==
    IF file = "posts.js" /\ Trim(OrEmpty(body)) = <<>>
        THEN Answer(o, ErrorJson(400, "Comment text required"))
        ELSE CommentRoute(o, u, OrEmpty(body), TRUE, found)

\* what comes with a request besides its headers: the outcome of the first
\* findById / findOne, the body, the :username parameter, the file multer
\* found in the form (the body is then req.body.filetitle)
SomeTitle == [has |-> TRUE, text |-> <<" ", "a", "b", " ">>]
NoArg == [found |-> "post", body |-> [has |-> FALSE, text |-> <<>>], name |-> "nobody",
          throws |-> FALSE, hasFile |-> TRUE]
Args(route) ==
    CASE route = "like" -> {[NoArg EXCEPT !.found = f] : f \in Found}
      [] route = "comment" ->
           {[NoArg EXCEPT !.found = f, !.body = b] : f \in Found, b \in Bodies}
      [] route = "follow" ->
           {[NoArg EXCEPT !.name = n, !.throws = t] : n \in Params, t \in BOOLEAN}
      [] route = "upload" ->
           {[NoArg EXCEPT !.hasFile = h, !.body = SomeTitle] : h \in BOOLEAN}
      [] route = "fileupload" -> {[NoArg EXCEPT !.hasFile = h] : h \in BOOLEAN}
      [] OTHER -> {NoArg}
\* the forms sent to /upload and /fileupload: with and without a file, the
\* title absent, empty, blank or a text
UploadArgs(route) ==
    IF route = "upload"
      THEN {[NoArg EXCEPT !.hasFile = h, !.body = t] : h \in BOOLEAN, t \in Bodies}
      ELSE Args(route)

\* the request inside /feed, /profile, /allpins, /fileupload or /upload: the
\* awaited database calls it has behind it
NoWeb == [pc |-> "none", file |-> "part_002", route |-> "feed", user |-> Me, xhr |-> FALSE,
          hasFile |-> TRUE, title |-> [has |-> FALSE, text |-> <<>>], calls |-> 0,
          res |-> NoWebRes]
\* the documents these routes write: user.profileimage, the Post documents
\* (their _id and imageTitle), user.posts, and the assets of the storage
\* provider that were destroyed
NoDocs == [profileimage |-> [u \in Users |-> ""], created |-> <<>>,
           posts |-> [u \in Users |-> <<>>], destroyed |-> 0]

\* faulty variant: a schema without `required`
validatesAlways(title) == TRUE
\* imageTitle: { type: String, required: true, trim: true }: the document
\* validates when the trimmed title is a non-empty string
validates(title) == title.has /\ Trim(title.text) # <<>>

\* the awaited database calls of a handler, in order
DbCalls(file, route) ==
    CASE route = "feed" -> IF file = "index.js" THEN <<"findOne", "find">>
                           ELSE <<"findOne", "countDocuments", "find">>
      [] route = "profile" -> <<"findOne">>
      [] route = "allpins" -> IF file = "index.js" THEN <<"findOne">>
                              ELSE <<"findOne", "countDocuments", "find">>
      [] route = "fileupload" -> <<"findOne", "save">>
      [] OTHER -> <<"findOne", "create", "save">>

\* what the handler does with an exception: its catch block, if it has one
Catch(file, route) ==
    CASE route \in {"feed", "profile", "allpins"} ->
           IF file = "index.js" THEN Escaped ELSE WebRes(500, "text", "Server error")
      [] route = "fileupload" ->
           IF file = "index.js" THEN Escaped ELSE WebRes(302, "redirect", "/profile")
      [] OTHER ->
           IF file = "index.js" THEN WebRes(500, "text", "Upload failed")
           ELSE WebRes(302, "redirect", "/profile")

\* the answer when nothing failed
Rendering(file, route, isXhr) ==
    CASE route \in {"upload", "fileupload"} -> WebRes(302, "redirect", "/profile")
      [] route \in {"feed", "allpins"} /\ file # "index.js" /\ isXhr -> WebRes(200, "json", "posts")
      [] OTHER -> WebRes(200, "render", route)

\* what a database call that succeeds writes; post._id is the number of the
\* Post document
Written(d, route, u, title, call) ==
    CASE route = "fileupload" /\ call = "save" -> [d EXCEPT !.profileimage[u] = "file"]
      [] route = "upload" /\ call = "create" ->
           [d EXCEPT !.created = Append(@, Trim(title.text))]
      [] route = "upload" /\ call = "save" -> [d EXCEPT !.posts[u] = Append(@, Len(d.created))]
      [] OTHER -> d

\* faulty variant: the catch block takes the Post document back
CleanedUpAll(d, file, route, destroys) ==
    IF route = "upload" /\ file # "index.js"
      THEN [d EXCEPT !.destroyed = @ + 1, !.created = <<>>]
      ELSE d
\* what the catch block undoes: cloudinary.uploader.destroy(req.file.filename),
\* whose own failure is logged and dropped
CleanedUp(d, file, route, destroys) ==
    IF route = "upload" /\ file # "index.js" /\ destroys
      THEN [d EXCEPT !.destroyed = @ + 1]
      ELSE d

\* no request of the session is inside a route
WebIdle ==
    /\ web.pc \in {"none", "done", "handed"}
    /\ sreq[WebOrigin].pc \in {"none", "done"}
    /\ freq[0].pc = "none"

\* a request arrives: isLoggedIn, then the route up to its first await
WebRequest(file, route, u, authenticated, xrw, accept, arg) ==
    LET guard == isLoggedInOf(file, authenticated, xrw, accept)
        w == [NoWeb EXCEPT !.file = file, !.route = route, !.user = u, !.xhr = xhr(xrw),
                           !.hasFile = arg.hasFile,
                           !.title = IF route = "upload" THEN arg.body ELSE NoWeb.title]
        handed == [w EXCEPT !.pc = "handed"]
    IN  /\ WebIdle
        /\ Serves(file, route)
        /\ CASE guard # PassedOn ->
                  /\ web' = [w EXCEPT !.pc = "done", !.res = guard]
                  /\ sreq' = [sreq EXCEPT ![WebOrigin] = NoReq]
                  /\ UNCHANGED freq
             [] route = "like" ->
                  /\ web' = handed
                  /\ sreq' = [sreq EXCEPT ![WebOrigin] = LikeRoute(WebOrigin, u, TRUE, arg.found)]
                  /\ UNCHANGED freq
             [] route = "comment" ->
                  /\ web' = handed
                  /\ sreq' = [sreq EXCEPT ![WebOrigin] =
                                CommentRouteOf(file, WebOrigin, u, arg.body, arg.found)]
                  /\ UNCHANGED freq
             [] route = "follow" ->
                  /\ web' = handed
                  /\ sreq' = [sreq EXCEPT ![WebOrigin] = NoReq]
                  /\ freq' = [freq EXCEPT ![0] = FollowRoute(u, arg.name, TRUE, arg.throws)]
             [] route = "upload" /\ ~arg.hasFile ->
                  /\ web' = [w EXCEPT !.pc = "done",
                                      !.res = WebRes(400, "text", "No file provided")]
                  /\ sreq' = [sreq EXCEPT ![WebOrigin] = NoReq]
                  /\ UNCHANGED freq
             [] OTHER ->
                  /\ web' = [w EXCEPT !.pc = "call"]
                  /\ sreq' = [sreq EXCEPT ![WebOrigin] = NoReq]
                  /\ UNCHANGED freq
        /\ toasted' = "" /\ ended' = ""
        /\ UNCHANGED <<variant, pressed, disabled, likeCount, pendingLikes, hnd, tl, input,
                       list, commentCount, postDisabled, cm, navigated>>
        /\ UNCHANGED <<likes, comments, followers, following, docs>>

\* Outcomes of an awaited database call
Outcomes == {"ok", "throws"}

\* the next awaited call of the handler returns or throws, and the catch
\* block runs; `req.file.path` of /fileupload throws when the form had no
\* file, postModel.create rejects a document that does not validate
WebCall(outcome) ==
    /\ web.pc = "call"
    /\ LET calls == DbCalls(web.file, web.route)
           call == calls[web.calls + 1]
           noFile == web.route = "fileupload" /\ ~web.hasFile /\ call = "save"
           invalid == web.route = "upload" /\ call = "create" /\ ~validates(web.title)
       IN  IF outcome = "throws" \/ noFile \/ invalid
             THEN /\ web' = [web EXCEPT !.pc = "done", !.res = Catch(web.file, web.route)]
                  /\ \E destroys \in BOOLEAN :
                       docs' = CleanedUp(docs, web.file, web.route, destroys)
             ELSE /\ docs' = Written(docs, web.route, web.user, web.title, call)
                  /\ web' = IF web.calls + 1 = Len(calls)
                              THEN [web EXCEPT !.pc = "done", !.calls = @ + 1,
                                               !.res = Rendering(web.file, web.route, web.xhr)]
                              ELSE [web EXCEPT !.calls = @ + 1]
    /\ toasted' = "" /\ ended' = ""
    /\ UNCHANGED <<variant, pressed, disabled, likeCount, pendingLikes, hnd, tl, input,
                   list, commentCount, postDisabled, cm, navigated>>
    /\ UNCHANGED <<postVars, userVars>>

\* --------------------------------------------------------------- pagination
\* the value of a query parameter, character by character; a parameter that
\* is absent parses like the empty string
QueryValues ==
    { <<>>, <<"0">>, <<"-", "3">>, <<"a", "b", "c">>, <<"1">>, <<"2">>, <<"4">>, <<"5">>,
      <<"2", "0">>, <<" ", "7", "p", "x">>, <<"0", "x", "1", "0">>, <<"9", "9", "9", "9">> }
\* countDocuments
Totals == {0, 1, 20, 21, 95}

DigitValue ==
    [c \in {"0", "1", "2", "3", "4", "5", "6", "7", "8", "9", "a", "b", "c", "d", "e", "f"} |->
       CASE c = "0" -> 0 [] c = "1" -> 1 [] c = "2" -> 2 [] c = "3" -> 3 [] c = "4" -> 4
         [] c = "5" -> 5 [] c = "6" -> 6 [] c = "7" -> 7 [] c = "8" -> 8 [] c = "9" -> 9
         [] c = "a" -> 10 [] c = "b" -> 11 [] c = "c" -> 12 [] c = "d" -> 13
         [] c = "e" -> 14 [] c = "f" -> 15]
IsDigit(c, base) == c \in DOMAIN DigitValue /\ DigitValue[c] < base

\* the longest prefix of s made of digits of the base
RECURSIVE DigitsOf(_, _)
DigitsOf(s, base) ==
    IF s # <<>> /\ IsDigit(Head(s), base) THEN <<Head(s)>> \o DigitsOf(Tail(s), base) ELSE <<>>
RECURSIVE ValueOf(_, _)
ValueOf(ds, base) ==
    IF ds = <<>> THEN 0 ELSE ValueOf(SubSeq(ds, 1, Len(ds) - 1), base) * base + DigitValue[ds[Len(ds)]]

NaN == [nan |-> TRUE, n |-> 0]
Number(n) == [nan |-> FALSE, n |-> n]

\* parseInt(s) (radix 0) and parseInt(s, 10): leading white space, a sign,
\* 0x for base 16 when no radix is given, then digits up to the first
\* character that is none
parseInt(s, radix) ==
    LET t == TrimStart(s)
        signed == t # <<>> /\ Head(t) \in {"+", "-"}
        u == IF signed THEN Tail(t) ELSE t
        hex == radix = 0 /\ Len(u) >= 2 /\ u[1] = "0" /\ u[2] \in {"x", "X"}
        base == IF hex THEN 16 ELSE 10
        ds == DigitsOf(IF hex THEN SubSeq(u, 3, Len(u)) ELSE u, base)
    IN  IF ds = <<>> THEN NaN
        ELSE Number(IF signed /\ Head(t) = "-" THEN 0 - ValueOf(ds, base) ELSE ValueOf(ds, base))

\* x || d for a number x: NaN and 0 are falsy
OrDefault(x, d) == IF x.nan \/ x.n = 0 THEN d ELSE x.n
Min(a, b) == IF a <= b THEN a ELSE b

\* faulty variant: rounds down
FloorDiv(a, b) == IF b > 0 THEN a \div b ELSE (0 - a) \div (0 - b)
\* Math.ceil(a / b) for integers a and b, b not 0
CeilDiv(a, b) == IF b > 0 THEN 0 - ((0 - a) \div b) ELSE 0 - (a \div (0 - b))

MAX_LIMIT == 50

\* the handlers that paginate: GET /feed, /allpins, /user/:username and
\* /user/:username/posts of part_002, getPagination of routes/posts.js
PagedRoutes == {"feed", "allpins", "user", "userPosts", "getPagination"}
Clamped == {"user", "userPosts"}
DefaultLimit(route) ==
    CASE route = "feed" -> 50 [] route = "getPagination" -> 100 [] OTHER -> 20

\* page, limit and skip as the handler computes them from req.query
PageOf(route, q) ==
    IF route \in Clamped THEN Max(1, OrDefault(parseInt(q, 10), 1))
    ELSE OrDefault(parseInt(q, 0), 1)
LimitOf(route, q) ==
    IF route \in Clamped
        THEN Min(Max(1, OrDefault(parseInt(q, 10), DefaultLimit(route))), MAX_LIMIT)
        ELSE OrDefault(parseInt(q, 0), DefaultLimit(route))

\* a request to a paginated endpoint: req.query.page, req.query.limit and
\* what countDocuments will return
Asked(route, pageQ, limitQ, total) ==
    [pc |-> "asked", route |-> route, pageQ |-> pageQ, limitQ |-> limitQ, total |-> total,
     page |-> 1, limit |-> 1, skip |-> 0, totalPages |-> 0, hasNextPage |-> FALSE]

\* the pagination object of the answer
getPagination(r) ==
    LET page == PageOf(r.route, r.pageQ)
        limit == LimitOf(r.route, r.limitQ)
        totalPages == CeilDiv(r.total, limit)
    IN  [r EXCEPT !.pc = "answered", !.page = page, !.limit = limit,
                  !.skip = (page - 1) * limit, !.totalPages = totalPages,
                  !.hasNextPage = page < totalPages]

\* the request is answered
Paginate ==
    /\ pg.pc = "asked"
    /\ pg' = getPagination(pg)
    /\ UNCHANGED <<pageVars, postVars, userVars, obs, triggers, webVars, modal, grid>>

\* ------------------------------------------ the image modal of script.js
\* items the page may hold, and populateModal timers that may be waiting
MaxGallery == 3
MaxPending == 2
\* what data-index or findIndex may give: an index of the gallery, -1, or an
\* index past the end
Indexes == (0 - 2)..(MaxGallery + 1)
\* modalImage.src: nothing, an item of the gallery, or a thumbnail's URL that
\* is no item
NoImage == 0 - 1
OtherImage == 0 - 2

\* the last click in the image area: e.clientX - rect.left and rect.width
NoClick == [x |-> 0, width |-> 0]
\* gallery.length, currentIndex, modal.classList.contains('show'),
\* rotateState, the item shown in the modal, the items preloaded, the
\* items whose setTimeout(.., 80) of populateModal has not run yet, and the
\* last click in the image area
Gallery(n) == [length |-> n, currentIndex |-> 0, show |-> FALSE, rotateState |-> 0,
               image |-> NoImage, preloaded |-> {}, pending |-> <<>>, click |-> NoClick]

\* faulty variant: the timer set last runs first
populateModalLifo(m, i) ==
    IF i \notin 0..(m.length - 1) THEN m ELSE [m EXCEPT !.pending = <<i>> \o @]
\* populateModal(gallery[i]) up to its setTimeout
populateModal(m, i) ==
    IF i \notin 0..(m.length - 1) THEN m ELSE [m EXCEPT !.pending = Append(@, i)]

\* faulty variant: the index is taken as it comes
openModalUnclamped(m, index) ==
    IF m.length = 0 THEN m
    ELSE [populateModal([m EXCEPT !.currentIndex = index], index) EXCEPT !.show = TRUE]
openModal(m, index) ==
    IF m.length = 0 THEN m
    ELSE LET i == Max(0, Min(index, m.length - 1))
         IN  [populateModal([m EXCEPT !.currentIndex = i], i) EXCEPT !.show = TRUE]

\* faulty variant: the rotation stays
closeModalRotated(m) == [m EXCEPT !.show = FALSE]
closeModal(m) == [m EXCEPT !.show = FALSE, !.rotateState = 0]

\* faulty variant: the last index is not looked at
nextImageUnguarded(m) ==
    populateModal([m EXCEPT !.currentIndex = @ + 1], m.currentIndex + 1)
nextImage(m) ==
    IF m.currentIndex >= m.length - 1 THEN m
    ELSE populateModal([m EXCEPT !.currentIndex = @ + 1], m.currentIndex + 1)
prevImage(m) ==
    IF m.currentIndex <= 0 THEN m
    ELSE populateModal([m EXCEPT !.currentIndex = @ - 1], m.currentIndex - 1)

\* preloadIndex
preloadIndex(m, i) ==
    IF i < 0 \/ i >= m.length THEN m ELSE [m EXCEPT !.preloaded = @ \cup {i}]

\* the other parts keep still, and no more timers wait than the bound allows
GalleryStep ==
    /\ Len(modal'.pending) <= MaxPending
    /\ UNCHANGED <<pageVars, postVars, userVars, obs, triggers, webVars, pg, grid>>

\* a click on an element with data-index or data-image
ClickPin(index) ==
    /\ modal' = openModal(modal, IF index >= 0 THEN index ELSE 0)
    /\ GalleryStep
\* ArrowRight, wheel down, swipe left
ArrowRight ==
    /\ modal' = nextImage(modal)
    /\ GalleryStep
\* ArrowLeft, wheel up, swipe right
ArrowLeft ==
    /\ modal' = prevImage(modal)
    /\ GalleryStep
\* the backdrop, the close button, Escape
Close ==
    /\ modal' = closeModal(modal)
    /\ GalleryStep
\* the rotate button
Rotate ==
    /\ modal' = [modal EXCEPT !.rotateState = (@ + 1) % 4]
    /\ GalleryStep
\* a click on a .more-thumb whose URL is that of item idx of the gallery, or
\* of no item (idx = -1)
ClickThumb(idx) ==
    /\ idx \in (0 - 1)..(modal.length - 1)
    /\ modal' = IF idx >= 0
                  THEN [populateModal([modal EXCEPT !.currentIndex = idx], idx)
                          EXCEPT !.show = TRUE]
                  ELSE [modal EXCEPT !.image = OtherImage]
    /\ GalleryStep
\* the timer of the oldest populateModal call runs: the content is swapped,
\* the rotation reset, the neighbours of currentIndex preloaded
PopulateTimeout ==
    /\ modal.pending # <<>>
    /\ LET m == [modal EXCEPT !.image = Head(modal.pending), !.rotateState = 0,
                              !.pending = Tail(@)]
       IN  modal' = preloadIndex(preloadIndex(m, m.currentIndex - 1), m.currentIndex + 1)
    /\ GalleryStep

\* the width of the image area and the places of a click in it, in pixels:
\* the ends, the middle, and the pixels around the borders of the zones
AreaWidth == 50
ClickXs == {0, 16, 17, 18, 25, 32, 33, 34, 49}
\* the zone of a click at x in an area of the given width:
\* x < rect.width * 0.35, x > rect.width * 0.65
clickZone(x, width) ==
    IF 100 * x < 35 * width THEN "prev"
    ELSE IF 100 * x > 65 * width THEN "next"
    ELSE "none"
\* a click in the image area of the open modal
ClickImage(x, width) ==
    /\ modal.show
    /\ LET m == [modal EXCEPT !.click = [x |-> x, width |-> width]]
       IN  modal' = CASE clickZone(x, width) = "prev" -> prevImage(m)
                      [] clickZone(x, width) = "next" -> nextImage(m)
                      [] OTHER -> m
    /\ GalleryStep

\* ------------------------------------------------------ the masonry grid
\* grid-auto-rows, gap and the content heights, in px
MaxRowHeight == 2
MaxRowGap == 1
MaxHeight == 4
\* the children of the grid
Items == 1..2

\* the value written into item.style.gridRowEnd behind 'span ': a number of
\* rows, or the text NaN or Infinity; "auto" before the first layout
Span(kind, n) == [kind |-> kind, n |-> n]
Rows(n) == Span("rows", n)
Auto == Span("auto", 0)

\* faulty variant: one row for every item
rowSpanOne(height, rowHeight, rowGap) == Rows(1)
\* Math.max(1, Math.ceil((height + rowGap) / (rowHeight + rowGap))): x / 0 is
\* Infinity, 0 / 0 is NaN, and Math.max(1, NaN) is NaN
rowSpan(height, rowHeight, rowGap) ==
    CASE rowHeight + rowGap > 0 -> Rows(Max(1, CeilDiv(height + rowGap, rowHeight + rowGap)))
      [] height + rowGap > 0 -> Span("Infinity", 0)
      [] OTHER -> Span("NaN", 0)

\* getNumericStyleProperty gives 0 for a property that is no length
\* (grid-auto-rows: auto, gap: normal)
Grid(rowHeight, rowGap, heights) ==
    [rowHeight |-> rowHeight, rowGap |-> rowGap,
     items |-> [i \in Items |-> [height |-> heights[i], span |-> Auto]]]

resizeMasonryGrid(g) ==
    [g EXCEPT !.items = [i \in Items |->
        [g.items[i] EXCEPT !.span = rowSpan(g.items[i].height, g.rowHeight, g.rowGap)]]]

\* the ResizeObserver, an image's load event, the window's resize event or
\* the first timer runs the layout
Resize ==
    /\ grid' = resizeMasonryGrid(grid)
    /\ UNCHANGED <<pageVars, postVars, userVars, obs, triggers, webVars, pg, modal>>

\* the content of item i gets another height (its image has loaded, the
\* window was resized)
Reflow(i, height) ==
    /\ grid.items[i].height # height
    /\ grid' = [grid EXCEPT !.items[i].height = height]
    /\ UNCHANGED <<pageVars, postVars, userVars, obs, triggers, webVars, pg, modal>>

\* ------------------------------------------------------- the parts at rest
NoPg == [Asked("feed", <<>>, <<>>, 0) EXCEPT !.pc = "none"]
NoModal == Gallery(0)
NoGrid == Grid(0, 0, [i \in Items |-> 0])
\* the parts a specification does not run
Elsewhere ==
    /\ web = NoWeb
    /\ docs = NoDocs
    /\ pg = NoPg
    /\ modal = NoModal
    /\ grid = NoGrid
\* ------------------------------------------------------- initial states
\* the two copies of the page script
Variants == {"part_000", "postscript"}
\* post.likes when the page is rendered
InitialLikes == {<<>>, <<"u2">>, <<"u1">>}
\* post.comments when the page is rendered
InitialComments == {<<[text |-> <<"c">>, user |-> "u2"]>>}
\* the comments as the template lists them
Rendered(cs) == [i \in 1..Len(cs) |-> Confirmed(cs[i].user, cs[i].text)]

\* the page as the server rendered it, its script run to the end of
\* DOMContentLoaded, no request out
InitPost(vs, ls, cs) ==
    /\ variant \in vs
    /\ likes \in [Posts -> ls]
    /\ comments \in [Posts -> cs]
    /\ pressed = [b \in Buttons |-> Me \in Range(likes[PostOf(b)])]
    /\ disabled = [b \in Buttons |-> FALSE]
    /\ likeCount = [p \in Posts |-> Len(likes[p])]
    /\ pendingLikes = {}
    /\ hnd = [b \in Buttons |-> Idle]
    /\ tl = Idle
    /\ input = <<>>
    /\ list = Rendered(comments["p1"])
    /\ commentCount = Len(comments["p1"])
    /\ postDisabled = FALSE
    /\ cm = Idle
    /\ navigated = FALSE
    /\ toasted = ""
    /\ ended = ""
    /\ sreq = [o \in Origins |-> NoReq]

\* who follows whom: any set of pairs of different users, stored on both sides
InitUsers(pairs) ==
    /\ \E F \in pairs :
         /\ followers = [t \in Users |-> {u \in Users : <<u, t>> \in F}]
         /\ following = [u \in Users |-> {t \in Users : <<u, t>> \in F}]
    /\ freq = [s \in FollowSlots |-> NoFollow]

NoObs == [stage |-> 0, kind |-> "", src |-> "", user |-> Me, target |-> Me,
          likes0 |-> <<>>, pressed0 |-> FALSE, count0 |-> 0,
          followers0 |-> {}, following0 |-> {}, reported |-> 0]

Pairs == SUBSET {<<u, t>> \in Users \X Users : u # t}

Init ==
    /\ InitPost(Variants, InitialLikes, InitialComments)
    /\ InitUsers({{}})
    /\ obs = NoObs
    /\ triggers = 0
    /\ Elsewhere

\* ------------------------------------------------------------ behaviours
\* a step that starts a request counts against the bound
Started ==
    /\ triggers < MaxTriggers
    /\ triggers' = triggers + 1
    /\ UNCHANGED <<obs, webVars, sideVars>>
Continued == UNCHANGED <<triggers, obs, webVars, sideVars>>

\* the steps of the request of origin o that need no user: the network, the
\* server, the continuations of the handler
LikeProgress(o) ==
    \/ o \in Buttons /\ (FetchSettle(o) \/ LikeAfterFetch(o) \/ LikeAfterJson(o))
    \/ o = "toggleLike" /\ (TlSettle \/ TlAfterFetch \/ TlAfterJson)
    \/ o \in Buttons \cup {"toggleLike"} /\ LikeFind(o)
    \/ LikeSave(o)

CommentProgress(o) ==
    \/ o = "postComment" /\ (CmSettle \/ CmAfterFetch \/ CmAfterErrJson \/ CmAfterJson)
    \/ o = "postComment" /\ CommentFind
    \/ CommentSave(o) \/ CommentReread(o)

Progress(o) == LikeProgress(o) \/ CommentProgress(o)

\* a step that needs no user
Running == \E o \in Origins : Progress(o) /\ Continued
Next ==
    \/ \E b \in Buttons : ClickLike(b) /\ Started
    \/ ToggleLikeCall /\ Started
    \/ \E t \in Inputs : ClickPost(t) /\ Started
    \/ \E x \in ExtSlots, u \in Users : ExtLikeFind(x, u) /\ Started
    \/ \E x \in ExtSlots, u \in OtherUsers : ExtCommentFind(x, u, <<"x">>) /\ Started
    \/ Running

Spec == Init /\ [][Next]_vars

\* The page alone, with the fairness of what runs it: the event loop, the
\* network and the server do not stop while a continuation is ready, a fetch
\* can settle or a request can be served.  Other sessions, which touch the
\* database only, are left out.
InitLive ==
    /\ InitPost(Variants, {<<>>}, InitialComments)
    /\ InitUsers({{}})
    /\ obs = NoObs
    /\ triggers = 0
    /\ Elsewhere

NextLive ==
    \/ \E b \in Buttons : ClickLike(b) /\ Started
    \/ ToggleLikeCall /\ Started
    \/ \E t \in Inputs : ClickPost(t) /\ Started
    \/ Running

LiveSpec == InitLive /\ [][NextLive]_vars /\ WF_vars(Running)


\* ------------------------------------------------- follow requests alone
InitFollow ==
    /\ InitPost({"part_000"}, {<<>>}, InitialComments)
    /\ InitUsers(Pairs)
    /\ obs = NoObs
    /\ triggers = 0
    /\ Elsewhere

FollowProgress(s) ==
    FollowUpdateTarget(s) \/ FollowUpdateMe(s) \/ FollowRespond(s)

NextFollow ==
    \/ \E s \in FollowSlots, u \in Users, name \in Params : FollowFind(s, u, name) /\ Started
    \/ \E s \in FollowSlots : FollowProgress(s) /\ Continued

SpecFollow == InitFollow /\ [][NextFollow]_vars

\* ------------------------------------- toggles handled one after the other
\* nothing is running: no handler on the page, no request on the server
Quiescent ==
    /\ \A b \in Buttons : hnd[b].pc = "idle"
    /\ tl.pc = "idle"
    /\ cm.pc = "idle"
    /\ \A o \in Origins : sreq[o].pc = "none"
    /\ \A s \in FollowSlots : freq[s].pc = "none"

\* the like handler of page origin o
Handler(o) == IF o = "toggleLike" THEN tl ELSE hnd[o]
\* the button whose aria-pressed the handler of o writes
ButtonOf(o) == IF o = "toggleLike" THEN "likeBtn" ELSE o
\* the answer said the toggle was done
Succeeded(res) == res.kind = "response" /\ Ok(res) /\ res.json /\ res.parses /\ res.data.success

\* obs watches two toggles in a row on the same control (or by the same user
\* on the same target): 1 the first is running, 2 it switched on, 3 the
\* second is running, 4 it switched off.  A toggle starts:
WatchLike(o) ==
    IF obs.stage = 2 /\ obs.kind = "like" /\ obs.src = o
        THEN [obs EXCEPT !.stage = 3]
        ELSE [NoObs EXCEPT !.stage = 1, !.kind = "like", !.src = o,
                           !.likes0 = likes["p1"], !.pressed0 = pressed[ButtonOf(o)],
                           !.count0 = likeCount["p1"]]
WatchFollow(u, t) ==
    IF obs.stage = 2 /\ obs.kind = "follow" /\ obs.user = u /\ obs.target = t
        THEN [obs EXCEPT !.stage = 3]
        ELSE [NoObs EXCEPT !.stage = 1, !.kind = "follow", !.user = u, !.target = t,
                           !.followers0 = followers[t], !.following0 = following[u]]
\* a toggle ends: done or not, and what the answer says the state is now
Turned(done, on, count) ==
    CASE obs.stage = 1 /\ done /\ on -> [obs EXCEPT !.stage = 2]
      [] obs.stage = 3 /\ done /\ ~on -> [obs EXCEPT !.stage = 4, !.reported = count]
      [] OTHER -> NoObs

SeqStarted ==
    /\ Quiescent
    /\ triggers < MaxSeqRequests
    /\ triggers' = triggers + 1
    /\ UNCHANGED <<webVars, sideVars>>

\* a step of the like request of page origin o; the toggle ends when the
\* handler returns
SeqLikeStep(o) ==
    /\ LikeProgress(o)
    /\ obs' = IF o \in PageOrigins /\ Handler(o).pc # "idle" /\ Handler(o)'.pc = "idle"
                THEN Turned(Succeeded(Handler(o).res), Handler(o).res.data.liked,
                            Handler(o).res.data.likesCount)
                ELSE obs
    /\ UNCHANGED <<triggers, webVars, sideVars>>

\* a step of the follow request of session s; the toggle ends with the answer
SeqFollowStep(s) ==
    /\ FollowProgress(s)
    /\ obs' = IF freq[s].pc # "done" /\ freq'[s].pc = "done"
                THEN Turned(freq'[s].res.data.success, freq'[s].res.data.following,
                            freq'[s].res.data.followersCount)
                ELSE obs
    /\ UNCHANGED <<triggers, webVars, sideVars>>

InitSeq ==
    /\ InitPost(Variants, InitialLikes, InitialComments)
    /\ InitUsers(Pairs)
    /\ obs = NoObs
    /\ triggers = 0
    /\ Elsewhere

NextSeq ==
    \/ \E b \in Buttons : ClickLike(b) /\ SeqStarted /\ obs' = WatchLike(b)
    \/ ToggleLikeCall /\ SeqStarted /\ obs' = WatchLike("toggleLike")
    \/ \E x \in ExtSlots, u \in Users : ExtLikeFind(x, u) /\ SeqStarted /\ obs' = NoObs
    \/ \E s \in FollowSlots, u \in Users, name \in Params :
         /\ FollowFind(s, u, name)
         /\ SeqStarted
         /\ obs' = IF freq'[s].pc = "done" THEN NoObs
                   ELSE WatchFollow(u, freq'[s].target)
    \/ \E o \in Origins : SeqLikeStep(o)
    \/ \E s \in FollowSlots : SeqFollowStep(s)

SpecSeq == InitSeq /\ [][NextSeq]_vars


\* ------------------ the requests of one session (user Me), one at a time
InitWeb ==
    /\ InitPost({"part_000"}, {<<>>, <<"u1">>}, InitialComments)
    /\ InitUsers({{}})
    /\ obs = NoObs
    /\ triggers = 0
    /\ Elsewhere

WebStarted ==
    /\ triggers < MaxTriggers
    /\ triggers' = triggers + 1
    /\ UNCHANGED <<obs, sideVars>>

\* isLoggedIn turns a request without a session away before multer and the
\* route read anything of it; past isLoggedIn only req.xhr is looked at
NextWeb ==
    \/ \E file \in Files, route \in Routes, xrw \in XRequestedWith, accept \in Accepts :
         WebRequest(file, route, Me, FALSE, xrw, accept, NoArg) /\ WebStarted
    \/ \E file \in Files, route \in Routes, xrw \in XRequestedWith :
         \E arg \in Args(route) :
           WebRequest(file, route, Me, TRUE, xrw, "text/html", arg) /\ WebStarted
    \/ \E outcome \in Outcomes : WebCall(outcome) /\ UNCHANGED <<triggers, obs, sideVars>>
    \/ (LikeSave(WebOrigin) \/ CommentSave(WebOrigin) \/ CommentReread(WebOrigin)) /\ Continued
    \/ FollowProgress(0) /\ Continued

SpecWeb == InitWeb /\ [][NextWeb]_vars

\* ----------------------------------------------- paginated requests alone
InitPages ==
    /\ InitPost({"part_000"}, {<<>>}, InitialComments)
    /\ InitUsers({{}})
    /\ obs = NoObs
    /\ triggers = 0
    /\ web = NoWeb /\ docs = NoDocs /\ modal = NoModal /\ grid = NoGrid
    /\ \E route \in PagedRoutes, pageQ \in QueryValues, limitQ \in QueryValues,
          total \in Totals :
         pg = Asked(route, pageQ, limitQ, total)

NextPages == Paginate

SpecPages == InitPages /\ [][NextPages]_vars

\* ------------------------------------------------------- the modal alone
InitGallery ==
    /\ InitPost({"part_000"}, {<<>>}, InitialComments)
    /\ InitUsers({{}})
    /\ obs = NoObs
    /\ triggers = 0
    /\ web = NoWeb /\ docs = NoDocs /\ pg = NoPg /\ grid = NoGrid
    /\ \E n \in 0..MaxGallery : modal = Gallery(n)

NextGallery ==
    \/ \E index \in Indexes : ClickPin(index)
    \/ ArrowRight
    \/ ArrowLeft
    \/ Close
    \/ Rotate
    \/ \E idx \in Indexes : ClickThumb(idx)
    \/ PopulateTimeout

SpecGallery == InitGallery /\ [][NextGallery]_vars

\* ------------------------------------- the modal and the clicks in its image
NextClicks ==
    \/ \E index \in Indexes : ClickPin(index)
    \/ \E x \in ClickXs : ClickImage(x, AreaWidth)
    \/ Close
    \/ PopulateTimeout

SpecClicks == InitGallery /\ [][NextClicks]_vars

\* --------------------------------------------------------- one grid alone
InitGrid ==
    /\ InitPost({"part_000"}, {<<>>}, InitialComments)
    /\ InitUsers({{}})
    /\ obs = NoObs
    /\ triggers = 0
    /\ web = NoWeb /\ docs = NoDocs /\ pg = NoPg /\ modal = NoModal
    /\ \E rowHeight \in 0..MaxRowHeight, rowGap \in 0..MaxRowGap,
          heights \in [Items -> 0..MaxHeight] :
         grid = Grid(rowHeight, rowGap, heights)

NextGrid ==
    \/ Resize
    \/ \E i \in Items, height \in 0..MaxHeight : Reflow(i, height)

SpecGrid == InitGrid /\ [][NextGrid]_vars

\* ----------------------- the uploads of one session (user Me), one at a time
UploadRoutes == {"upload", "fileupload"}

NextUpload ==
    \/ \E file \in Files, route \in UploadRoutes, xrw \in XRequestedWith :
         \E arg \in UploadArgs(route) :
           WebRequest(file, route, Me, TRUE, xrw, "text/html", arg) /\ WebStarted
    \/ \E outcome \in Outcomes : WebCall(outcome) /\ UNCHANGED <<triggers, obs, sideVars>>

SpecUpload == InitWeb /\ [][NextUpload]_vars
\* ================================================================= claims
LikeOrigins == Buttons \cup {"toggleLike"}
\* the like fetches of the page that are out for post p
InFlight(p) == {o \in LikeOrigins : PostOf(o) = p /\ Waiting(o)}
\* the handler of button b returns in this step
LikeEnds(b) == hnd[b].pc # "idle" /\ hnd'[b].pc = "idle"
\* the comment handler returns in this step
CommentEnds == cm.pc # "idle" /\ cm'.pc = "idle"

\* C1: in the page script that keeps the pendingLikes registry, at most one
\* like request per post is in flight at any time, whichever control or call
\* triggered it.
C1_OneLikeInFlight ==
    variant = "part_000" => \A p \in Posts : Cardinality(InFlight(p)) <= 1

\* the fetch of a button and the fetch of window.toggleLike are out together
C1_Witness ==
    /\ variant = "part_000"
    /\ hnd["likeBtn"].pc = "await"
    /\ tl.pc = "await"

\* C2: whenever a like or comment handler returns, the display it wrote is
\* the state before its optimistic change or the state a success answer
\* confirmed: the flag and count for a like, the list and counter for a
\* comment.
C2_ConfirmedOrRolledBack ==
    [][/\ \A b \in Buttons :
            LikeEnds(b) =>
              LET h == hnd[b]
              IN  \/ pressed'[b] = h.wasLiked /\ likeCount'[PostOf(b)] = h.prevCount
                  \/ /\ Succeeded(h.res)
                     /\ pressed'[b] = h.res.data.liked
                     /\ likeCount'[PostOf(b)] = h.res.data.likesCount
       /\ CommentEnds =>
            \/ list' = cm.list0 /\ commentCount' = cm.count0
            \/ /\ Succeeded(cm.res) /\ cm.res.data.hasComment
               /\ list' = Prepend(cm.list0, Confirmed(cm.res.data.comment.user,
                                                  cm.res.data.comment.text))
               /\ commentCount' = cm.count0 + 1]_vars

\* a click that postLikeRequest refused has returned and left its optimistic
\* flag on the button
C2_Witness ==
    /\ ended = "dataBtn"
    /\ toasted = ""
    /\ hnd["likeBtn"].pc = "await"
    /\ likeCount["p1"] = Len(likes["p1"]) + 2

\* C3: the like list of a post holds each user at most once.
C3_NoDuplicateLikes ==
    \A p \in Posts : Cardinality(Range(likes[p])) = Len(likes[p])

\* two like requests of one user have both loaded the post before either saved
C3_Witness ==
    \E o1, o2 \in Origins :
        /\ o1 # o2
        /\ sreq[o1].pc = "save" /\ sreq[o2].pc = "save"
        /\ sreq[o1].user = sreq[o2].user
        /\ ~sreq[o1].alreadyLiked /\ ~sreq[o2].alreadyLiked

\* C4: when no follow request is in progress, A is in B's followers exactly
\* when B is in A's following.
NoFollowRunning == \A s \in FollowSlots : freq[s].pc = "none"
C4_SymmetricAtRest ==
    NoFollowRunning =>
        \A a, b \in Users : (a \in followers[b]) <=> (b \in following[a])

\* two follow requests of one user for one target are between their updates
C4_Witness ==
    \E s1, s2 \in FollowSlots :
        /\ s1 # s2
        /\ freq[s1].pc = "me" /\ freq[s2].pc = "me"
        /\ freq[s1].user = freq[s2].user /\ freq[s1].target = freq[s2].target
        /\ freq[s1].alreadyFollowing # freq[s2].alreadyFollowing

\* the display agreed with the server when the watched pair of toggles began
InSync0 ==
    /\ obs.pressed0 = (Me \in Range(obs.likes0))
    /\ obs.count0 = Len(obs.likes0)
\* the server is back where it was before the first toggle of the pair
ServerRestored ==
    IF obs.kind = "like"
        THEN likes["p1"] = obs.likes0 /\ obs.reported = Len(obs.likes0)
        ELSE /\ followers[obs.target] = obs.followers0
             /\ following[obs.user] = obs.following0
             /\ obs.reported = Cardinality(obs.followers0)
\* ... but for the caller's following list, which has lost the target
ServerSwitchedOff ==
    IF obs.kind = "like"
        THEN likes["p1"] = obs.likes0 /\ obs.reported = Len(obs.likes0)
        ELSE /\ followers[obs.target] = obs.followers0
             /\ following[obs.user] = obs.following0 \ {obs.target}
             /\ obs.reported = Cardinality(obs.followers0)
\* the control that was toggled shows what it showed before the first toggle
ClientRestored ==
    obs.kind = "like" =>
        /\ pressed[ButtonOf(obs.src)] = obs.pressed0
        /\ likeCount["p1"] = obs.count0

\* C5 as stated: after two completed toggles in a row, on then off, with no
\* other request between them, the server's set and reported count and the
\* client's flag and displayed count are what they were before the first.
C5_TwiceRestores ==
    obs.stage = 4 => ServerRestored /\ ClientRestored

\* C5: after two completed toggles in a row, on then off, with no other
\* request between them, the like list, the target's followers and the
\* count the server reports are what they were before the first, and the
\* caller's following list is what it was without the target; the client's
\* flag and displayed count are what they were when they agreed with the
\* server before the first toggle.
C5_TwiceRestoresInSync ==
    obs.stage = 4 => ServerSwitchedOff /\ (InSync0 => ClientRestored)

\* a like was switched on and off again from a display that was up to date
C5_Witness ==
    /\ obs.stage = 4
    /\ obs.kind = "like"
    /\ InSync0
    /\ ended = obs.src

\* the answer of a like request falls under C7: no 401, and a bad status, a
\* content type that is not JSON, a body that does not parse, or no success
BadAnswer(res) ==
    /\ res.kind = "response"
    /\ res.status # 401
    /\ ~Ok(res) \/ ~res.json \/ ~res.parses \/ ~res.data.success
\* the server's error string, "" if the answer carries none
ErrorString(res) == IF res.json /\ res.parses THEN res.data.error ELSE ""

\* C6: when a like request is answered 401, the handler returns with the
\* button's flag and the count at their values before the click and shows
\* 'Login required to like posts'; window.toggleLike, which changes nothing
\* before the answer, leaves flag and count alone and shows the same message.
C6_Unauthorized ==
    [][/\ \A b \in Buttons :
            (LikeEnds(b) /\ hnd[b].res.kind = "response" /\ hnd[b].res.status = 401) =>
                /\ pressed'[b] = hnd[b].wasLiked
                /\ likeCount'[PostOf(b)] = hnd[b].prevCount
                /\ ~disabled'[b]
                /\ toasted' = "Login required to like posts"
       /\ (tl.pc # "idle" /\ tl'.pc = "idle" /\ tl.res.kind = "response"
             /\ tl.res.status = 401) =>
                /\ pressed' = pressed
                /\ likeCount' = likeCount
                /\ toasted' = "Login required to like posts"]_vars

\* the handler of a button has returned on the 401 path
C6_Witness ==
    /\ ended \in Buttons
    /\ toasted = "Login required to like posts"
    /\ pressed[ended] = (Me \in Range(likes["p1"]))

\* C7 as stated: on a bad answer the handler restores flag and count and
\* shows the server's error string when the answer carries one, a generic
\* message otherwise.
C7_ServerStringWhenProvided ==
    [][\A b \in Buttons :
          (LikeEnds(b) /\ BadAnswer(hnd[b].res)) =>
              /\ pressed'[b] = hnd[b].wasLiked
              /\ likeCount'[PostOf(b)] = hnd[b].prevCount
              /\ toasted' = IF ErrorString(hnd[b].res) # "" THEN ErrorString(hnd[b].res)
                            ELSE IF ~Ok(hnd[b].res) \/ ~hnd[b].res.json
                                THEN "Could not update like. Try again."
                            ELSE "Failed to update like"]_vars

\* C7: on a bad answer the handler restores flag and count and shows a
\* failure message: 'Could not update like. Try again.' for a status outside
\* 2xx or a content type that is not JSON, whatever the body says; for a 2xx
\* JSON answer without success the server's error string when it carries
\* one, 'Failed to update like' otherwise.
C7_BadAnswerRollsBack ==
    [][\A b \in Buttons :
          (LikeEnds(b) /\ BadAnswer(hnd[b].res)) =>
              /\ pressed'[b] = hnd[b].wasLiked
              /\ likeCount'[PostOf(b)] = hnd[b].prevCount
              /\ toasted' = IF ~Ok(hnd[b].res) \/ ~hnd[b].res.json
                                THEN "Could not update like. Try again."
                            ELSE IF ErrorString(hnd[b].res) # ""
                                THEN ErrorString(hnd[b].res)
                            ELSE "Failed to update like"]_vars

\* the handler of a button has returned after a 2xx JSON answer that carried
\* an error string instead of success
C7_Witness ==
    /\ ended \in Buttons
    /\ toasted = "Refused"

\* the comment request ended in one of the failures C8 lists
CommentFailed(res) ==
    \/ res.kind # "response"
    \/ /\ ~res.redirected
       /\ ~Ok(res) \/ ~res.json \/ ~res.parses \/ ~res.data.success \/ ~res.data.hasComment
CommentSucceeded(res) == Succeeded(res) /\ ~res.redirected /\ res.data.hasComment

C9_BlankClick ==
    [][\A t \in Inputs :
          (IsBlank(t) /\ ClickPost(t)) =>
              /\ cm'.pc = "idle"
              /\ sreq' = sreq
              /\ list' = list
              /\ commentCount' = commentCount
              /\ ~postDisabled']_vars

\* the post control was clicked over an input of blanks
C9_Witness ==
    /\ input # <<>>
    /\ IsBlank(input)
    /\ cm.pc = "idle"
    /\ triggers > 0

\* C10: every like button and the post control, once disabled by its
\* handler, is enabled again with the handler returned.
C10_ReEnabled ==
    /\ \A b \in Buttons : disabled[b] ~> (~disabled[b] /\ hnd[b].pc = "idle")
    /\ postDisabled ~> (~postDisabled /\ cm.pc = "idle")

\* a refused duplicate click has returned and its button is enabled again
C10_Witness ==
    /\ ended = "dataBtn"
    /\ ~disabled["dataBtn"]
    /\ disabled["likeBtn"]


\* ------------------------------------------------------------ isLoggedIn
\* the request says it is programmatic
Programmatic(xrw, accept) == xrw = "XMLHttpRequest" \/ accept = "application/json"

\* C11: a request without an authenticated session to the like, comment,
\* follow, upload or profile-image route changes no document and does not
\* enter the handler; it is answered 401 with a JSON error body when it is
\* programmatic and with a redirect to /login otherwise.
C11_Unauthenticated ==
    [][\A file \in Files, route \in Mutating, xrw \in XRequestedWith, accept \in Accepts :
         \A arg \in Args(route) :
           WebRequest(file, route, Me, FALSE, xrw, accept, arg) =>
             /\ UNCHANGED <<likes, comments, followers, following, docs>>
             /\ web'.pc = "done" /\ sreq'[WebOrigin].pc = "none" /\ freq'[0].pc = "none"
             /\ IF Programmatic(xrw, accept)
                  THEN web'.res.status = 401 /\ web'.res.kind = "json" /\ web'.res.body # ""
                  ELSE web'.res.kind = "redirect" /\ web'.res.body = "/login"]_vars

\* an XMLHttpRequest to a mutating route was sent to the login page
C11_Witness ==
    /\ web.pc = "done" /\ web.route \in Mutating /\ web.xhr
    /\ web.res.kind = "redirect" /\ web.res.body = "/login"
    /\ docs = NoDocs

\* ------------------------------------------------------- comment texts
StoredTextsNotBlank ==
    \A p \in Posts : \A i \in 1..Len(comments[p]) : Trim(comments[p][i].text) # <<>>

\* C12: a comment request of a logged-in user for an existing post whose
\* text is missing, empty or blank is answered 400 with a JSON error body and
\* leaves post.comments as it was; no stored comment has a blank text.
C12_BlankCommentRefused ==
    /\ []StoredTextsNotBlank
    /\ [][\A file \in Files \ {"index.js"}, xrw \in XRequestedWith, accept \in Accepts,
            body \in Bodies :
            (/\ IsBlank(OrEmpty(body))
             /\ WebRequest(file, "comment", Me, TRUE, xrw, accept,
                           [NoArg EXCEPT !.found = "post", !.body = body]))
            => /\ sreq'[WebOrigin].pc = "done"
               /\ sreq'[WebOrigin].res.status = 400
               /\ sreq'[WebOrigin].res.json /\ sreq'[WebOrigin].res.parses
               /\ sreq'[WebOrigin].res.data.error # ""
               /\ UNCHANGED comments]_vars

C12_Witness ==
    /\ web.pc = "handed" /\ web.route = "comment"
    /\ sreq[WebOrigin].pc = "done" /\ sreq[WebOrigin].res.status = 400
    /\ triggers = 2 /\ Len(comments["p1"]) = 2

\* ------------------------------------------------- failing database calls
GenericBodies == {"Server error", "Upload failed"}
ServerError == ErrorJson(500, "Server error")

\* C13: when a database call of a route handler fails, the handler answers
\* 500 with a generic body; the failure does not leave the handler.
C13_FailuresAnswered500 ==
    [][/\ WebCall("throws") =>
            /\ web'.pc = "done" /\ web'.res.status = 500
            /\ web'.res.kind \in {"text", "json"} /\ web'.res.body \in GenericBodies
       /\ \A file \in Files \ {"index.js"}, route \in {"like", "comment"},
             xrw \in XRequestedWith, accept \in Accepts, body \in Bodies :
            WebRequest(file, route, Me, TRUE, xrw, accept,
                       [NoArg EXCEPT !.found = "throws", !.body = body])
            => sreq'[WebOrigin].pc = "done"
               /\ sreq'[WebOrigin].res.status \in {500, 400}
               /\ sreq'[WebOrigin].res.data.error \in {"Server error", "Comment text required"}
       /\ (LikeSave(WebOrigin) /\ UNCHANGED likes) =>
            sreq'[WebOrigin].pc = "done" /\ sreq'[WebOrigin].res = ServerError
       /\ (CommentSave(WebOrigin) /\ UNCHANGED comments) =>
            sreq'[WebOrigin].pc = "done" /\ sreq'[WebOrigin].res = ServerError
       /\ \A file \in Files \ {"index.js"}, xrw \in XRequestedWith, accept \in Accepts :
            WebRequest(file, "follow", Me, TRUE, xrw, accept,
                       [NoArg EXCEPT !.name = "bob", !.throws = TRUE])
            => freq'[0].pc = "done" /\ freq'[0].res.status = 500
               /\ freq'[0].res.data.error = "Server error"]_vars

\* a database call of a handler without try / catch failed
C13_Witness == web.pc = "done" /\ web.res = Escaped /\ web.route = "feed"

\* ------------------------------------------------------------- no self-follow
NoSelfFollow == \A u \in Users : u \notin followers[u] /\ u \notin following[u]

IsCeiling(n, a, b) ==
    IF b > 0 THEN (n - 1) * b < a /\ a <= n * b
    ELSE n * b <= a /\ a < (n - 1) * b

\* C15: in every pagination a handler computes, totalPages is the ceiling
\* of total / limit and hasNextPage says currentPage < totalPages; with
\* total 95 and limit 20 there are 5 pages, pages 1 to 4 have a next page and
\* page 5 has none.
C15_TotalPages ==
    pg.pc = "answered" =>
      /\ IsCeiling(pg.totalPages, pg.total, pg.limit)
      /\ pg.hasNextPage <=> pg.page < pg.totalPages
      /\ (pg.total = 95 /\ pg.limit = 20) =>
           /\ pg.totalPages = 5
           /\ pg.page \in 1..4 => pg.hasNextPage
           /\ pg.page = 5 => ~pg.hasNextPage

C15_Witness ==
    /\ pg.pc = "answered" /\ pg.route = "user" /\ pg.total = 95 /\ pg.limit = 20 /\ pg.page = 5
    /\ pg.totalPages = 5 /\ ~pg.hasNextPage

\* C16: whatever page and limit the query carries, the page and the limit
\* the handler uses are positive, the limit is at most the cap, and
\* skip = (page - 1) * limit is not negative.
C16_PositiveCapped ==
    pg.pc = "answered" =>
      /\ pg.page >= 1
      /\ pg.limit >= 1 /\ pg.limit <= MAX_LIMIT
      /\ pg.skip = (pg.page - 1) * pg.limit /\ pg.skip >= 0

\* GET /feed?page=-3
C16_Witness == pg.pc = "answered" /\ pg.route = "feed" /\ pg.page = 0 - 3 /\ pg.skip < 0

\* ------------------------------------------------------------ the comment list
IsPrefix(s, t) == Len(s) <= Len(t) /\ SubSeq(t, 1, Len(s)) = s

\* C17: whatever like and comment requests run, and however they
\* interleave, every step leaves the comments a post already has where they
\* are, with their text and author: the list only grows at its end.
C17_CommentsAppendOnly ==
    [][\A p \in Posts : IsPrefix(comments[p], comments'[p])]_vars

\* two comments were stored behind the one the post had
C17_Witness == Len(comments["p1"]) = 3 /\ \E i \in 1..3 : comments["p1"][i].user = Me

\* ------------------------------------------------------------- the modal
AtLast == modal.length > 0 /\ modal.currentIndex = modal.length - 1
AtFirst == modal.currentIndex = 0

\* C18: nextImage at the last index and prevImage at index 0 change
\* nothing: not currentIndex, and nothing populateModal touches.
C18_EdgesAreNoOps ==
    [][/\ (AtLast /\ ArrowRight) => UNCHANGED modal
       /\ (AtFirst /\ ArrowLeft) => UNCHANGED modal]_vars

\* the modal shows the last item and its timer has run
C18_Witness ==
    /\ modal.length = 3 /\ modal.currentIndex = 2 /\ modal.show
    /\ modal.image = 2 /\ modal.pending = <<>>

InBounds(m) == m.length > 0 => m.currentIndex \in 0..(m.length - 1)

\* C19: with a gallery that is not empty currentIndex is always an index
\* of the gallery, and openModal called with any integer leaves it one;
\* with an empty gallery opening changes nothing and the modal is not shown.
C19_IndexInBounds ==
    /\ InBounds(modal)
    /\ \A index \in Indexes : InBounds(openModal(modal, index))
    /\ modal.length = 0 =>
         /\ ~modal.show
         /\ \A index \in Indexes : openModal(modal, index) = modal

\* opened past the end of the gallery
C19_Witness ==
    /\ modal.length = 2 /\ modal.show /\ modal.currentIndex = 1
    /\ modal.pending = <<1, 1>>

\* ------------------------------------------------------------ the grid
\* C20: a layout gives every item the number of rows
\* max(1, ceil((height + rowGap) / (rowHeight + rowGap))); of two items the
\* taller has at least as many rows as the other; a second layout with the
\* heights unchanged changes no span.
C20_RowSpans ==
    [][Resize =>
         /\ \A i \in Items :
              LET it == grid'.items[i]
              IN  /\ it.span.kind = "rows"
                  /\ \/ it.span.n = 1 /\ it.height + grid.rowGap <= grid.rowHeight + grid.rowGap
                     \/ it.span.n > 1 /\ IsCeiling(it.span.n, it.height + grid.rowGap,
                                                   grid.rowHeight + grid.rowGap)
         /\ \A i, j \in Items :
              grid'.items[i].height < grid'.items[j].height =>
                /\ grid'.items[i].span.kind = "rows" /\ grid'.items[j].span.kind = "rows"
                /\ grid'.items[j].span.n >= grid'.items[i].span.n
         /\ resizeMasonryGrid(grid') = grid']_vars

\* the same with a row height or a gap that is not zero
RowSpansOfProperGrid ==
    [][(Resize /\ grid.rowHeight + grid.rowGap > 0) =>
         /\ \A i \in Items :
              LET it == grid'.items[i]
              IN  /\ it.span.kind = "rows"
                  /\ \/ it.span.n = 1 /\ it.height + grid.rowGap <= grid.rowHeight + grid.rowGap
                     \/ it.span.n > 1 /\ IsCeiling(it.span.n, it.height + grid.rowGap,
                                                   grid.rowHeight + grid.rowGap)
         /\ \A i, j \in Items :
              grid'.items[i].height < grid'.items[j].height =>
                grid'.items[j].span.n >= grid'.items[i].span.n
         /\ resizeMasonryGrid(grid') = grid']_vars

\* grid-auto-rows and gap are no lengths: an empty item and one with content
C20_Witness ==
    /\ grid.rowHeight = 0 /\ grid.rowGap = 0
    /\ grid.items[1].height = 0 /\ grid.items[1].span.kind = "NaN"
    /\ grid.items[2].height > 0 /\ grid.items[2].span.kind = "Infinity"

\* ------------------------------------------------------ uploads: the title
\* an upload with a file whose title does not validate is being handled
UntitledUpload == web.route = "upload" /\ web.hasFile /\ ~validates(web.title)
\* every step of such a request leaves the Post documents and user.posts alone
UntitledUploadStoresNothing ==
    [][(web'.route = "upload" /\ web'.hasFile /\ ~validates(web'.title))
         => (docs'.created = docs.created /\ docs'.posts = docs.posts)]_vars

\* C21: an upload of a logged-in user with a file and a missing or empty
\* title is answered 400 with a JSON error body; it creates no Post document
\* and appends nothing to user.posts.
C21_UntitledUploadRefused ==
    [][/\ (web'.route = "upload" /\ web'.hasFile /\ ~validates(web'.title))
            => (docs'.created = docs.created /\ docs'.posts = docs.posts)
       /\ (UntitledUpload /\ WebCall("ok") /\ web'.pc = "done")
            => (web'.res.status = 400 /\ web'.res.kind = "json" /\ web'.res.body # "")]_vars

\* postModel.create rejected the document and the answer was the redirect
\* of the catch block
C21_Witness ==
    /\ UntitledUpload /\ web.pc = "done" /\ web.calls = 1
    /\ web.res.kind = "redirect" /\ web.res.body = "/profile"
    /\ docs.created = <<>>

\* ------------------------------------------------- likes: the server's word
\* window.toggleLike returns in this step
ToggleLikeEnds == tl.pc # "idle" /\ tl'.pc = "idle"
\* the answer is a JSON success answer with a count
Authoritative(res) == Succeeded(res) /\ res.data.hasCount

\* C22: when a like handler returns after a JSON success answer, the
\* button's flag is the answer's liked and the count shown is the answer's
\* likesCount, whatever the optimistic update had put there.
C22_ServerTruthWins ==
    [][/\ \A b \in Buttons :
            (LikeEnds(b) /\ Authoritative(hnd[b].res)) =>
              /\ pressed'[b] = hnd[b].res.data.liked
              /\ likeCount'[PostOf(b)] = hnd[b].res.data.likesCount
       /\ (ToggleLikeEnds /\ Authoritative(tl.res)) =>
              /\ pressed'["likeBtn"] = tl.res.data.liked
              /\ likeCount'["p1"] = tl.res.data.likesCount]_vars

\* the handler of dataBtn returned without a message, and what it left on
\* the page (not pressed, count 1) is the server's answer: its optimistic
\* update had set the flag, or had set the count to 0
C22_Witness ==
    /\ variant = "part_000"
    /\ ended = "dataBtn" /\ toasted = ""
    /\ ~pressed["dataBtn"] /\ pressed["likeBtn"]
    /\ likeCount["p1"] = 1 /\ likes["p1"] = <<"u2">>

\* ------------------------------------------------- likes: rejected fetches
\* the handler of b returns in this step from its catch block
LikeFailed(b) == LikeEnds(b) /\ hnd[b].res.kind # "response"

\* C23: when the like request fails with a network error the handler puts
\* the flag and count back to what they were before the click and shows a
\* message; when the request was aborted, or refused by postLikeRequest as a
\* duplicate of a pending one, the handler leaves flag and count as they are
\* (for a duplicate: as its optimistic update set them one step before) and
\* shows nothing.  Aborts and duplicates exist in part_000 only: postscript
\* passes no signal to fetch and keeps no registry.
C23_FailedLike ==
    [][\A b \in Buttons :
         /\ (LikeFailed(b) /\ hnd[b].res.kind = "TypeError") =>
              /\ pressed'[b] = hnd[b].wasLiked
              /\ likeCount'[PostOf(b)] = hnd[b].prevCount
              /\ toasted' # ""
         /\ (LikeFailed(b) /\ variant = "part_000"
               /\ hnd[b].res.kind \in {"AbortError", "pending"}) =>
              /\ pressed' = pressed /\ likeCount' = likeCount
              /\ toasted' = ""
         /\ (LikeFailed(b) /\ hnd[b].res.kind = "pending") =>
              /\ pressed'[b] = ~hnd[b].wasLiked
              /\ likeCount'[PostOf(b)] = hnd[b].optimistic]_vars

\* the click on likeBtn came while the request of dataBtn was out: its
\* handler has returned, the flag it set and its count (2) stay
C23_Witness ==
    /\ variant = "part_000"
    /\ ended = "likeBtn" /\ toasted = ""
    /\ hnd["dataBtn"].pc = "await"
    /\ pressed["likeBtn"] /\ likeCount["p1"] = 2 /\ likes["p1"] = <<>>

\* ------------------------------------------------ comments: whose comment
\* C24: the comment in a success answer of the comment route is the one the
\* request created (its text, its author), also when another comment on the
\* post is saved between the request's save and its second findById.
C24_OwnCommentReturned ==
    [][\A o \in Origins :
         (CommentReread(o) /\ sreq'[o].pc = "done" /\ sreq'[o].res.data.success) =>
           /\ sreq'[o].res.data.hasComment
           /\ sreq'[o].res.data.comment = [text |-> sreq[o].text, user |-> sreq[o].user]]_vars

\* the page's request was answered with the comment of the other user
C24_Witness ==
    /\ sreq["postComment"].pc = "done" /\ sreq["postComment"].res.data.success
    /\ sreq["postComment"].res.data.comment = [text |-> <<"x">>, user |-> "u2"]
    /\ Len(comments["p1"]) = 3
    /\ comments["p1"][2].user = Me

\* ------------------------------------------------- uploads: the two writes
\* the awaited call number n of the upload handler fails in this step
UploadFailsAt(n) ==
    /\ web.route = "upload" /\ web.pc = "call" /\ web.calls = n - 1
    /\ web'.pc = "done" /\ web'.calls = n - 1
\* every entry of a user's post list is the _id of a stored Post
ReferencesStored ==
    \A u \in Users : \A i \in 1..Len(docs.posts[u]) :
        docs.posts[u][i] \in 1..Len(docs.created)
\* the Post documents no post list refers to
Orphans == {id \in 1..Len(docs.created) : \A u \in Users : id \notin Range(docs.posts[u])}

\* C25: when postModel.create succeeded and user.save() then fails, the Post
\* stays stored and no post list refers to it; nothing is undone but,
\* at most, the uploaded asset (the handler of routes/index.js does not even
\* try).  When postModel.create fails, no Post is stored and the post lists
\* are as before.
C25_UploadNotAtomic ==
    /\ []ReferencesStored
    /\ [][/\ UploadFailsAt(3) =>
               /\ docs'.created = docs.created /\ docs.created # <<>>
               /\ docs'.posts = docs.posts
               /\ Len(docs'.created) \in {id \in 1..Len(docs'.created) :
                      \A u \in Users : id \notin Range(docs'.posts[u])}
               /\ docs'.profileimage = docs.profileimage
               /\ docs'.destroyed \in {docs.destroyed, docs.destroyed + 1}
               /\ web.file = "index.js" => docs'.destroyed = docs.destroyed
          /\ UploadFailsAt(2) =>
               /\ docs'.created = docs.created
               /\ docs'.posts = docs.posts]_vars

\* user.save() failed after the Post was created: the Post is an orphan and
\* the asset was destroyed
C25_Witness ==
    /\ web.pc = "done" /\ web.route = "upload" /\ web.calls = 2
    /\ web.res = Catch(web.file, "upload")
    /\ Orphans = {1} /\ docs.posts[Me] = <<>>
    /\ docs.destroyed = 1

\* ------------------------------------------------- the pendingLikes registry
\* the fetches that postLikeRequest issued for post p and that have not settled
Unsettled(p) == {b \in Buttons : PostOf(b) = p /\ hnd[b].pc = "await"}
RegistryExact ==
    variant = "part_000" => \A p \in Posts : (p \in pendingLikes <=> Unsettled(p) # {})

\* C26: pendingLikes holds the id of a post exactly while a fetch that
\* postLikeRequest issued for it has not settled: the id is added when the
\* fetch is sent and removed when it settles, with a Response or a rejection;
\* once it is removed, a click for that post issues a request.
C26_RegistryTracksRequests ==
    /\ []RegistryExact
    /\ [][\A b \in Buttons :
            /\ (ClickLike(b) /\ variant = "part_000" /\ PostOf(b) \notin pendingLikes)
                 => (hnd'[b].pc = "await" /\ PostOf(b) \in pendingLikes')
            /\ (FetchSettle(b) /\ variant = "part_000") => PostOf(b) \notin pendingLikes']_vars

\* the request of likeBtn has settled (its handler is reading the body) and
\* the click on dataBtn that followed was let through
C26_Witness ==
    /\ variant = "part_000"
    /\ hnd["likeBtn"].pc = "json"
    /\ hnd["dataBtn"].pc = "await"
    /\ pendingLikes = {"p1"}

\* ------------------------------------------------ the modal: what is shown
\* C27: after any sequence of openModal, nextImage and prevImage calls, with
\* any number of populateModal timers waiting at a time, once every timer
\* has run the modal shows gallery[currentIndex].  (A thumbnail whose URL is
\* no item of the gallery puts its own image in the modal.)
C27_ShowsCurrent ==
    /\ modal.pending = <<>> /\ modal.image \notin {NoImage, OtherImage}
         => modal.image = modal.currentIndex
    /\ modal.show /\ modal.pending = <<>> => modal.image # NoImage
    /\ modal.pending # <<>> => modal.pending[Len(modal.pending)] = modal.currentIndex

\* the modal has gone through its three items (each was a neighbour that a
\* timer preloaded) back to the first; every timer has run and the first
\* item is shown
C27_Witness ==
    /\ modal.length = 3 /\ modal.show /\ modal.pending = <<>>
    /\ modal.currentIndex = 0 /\ modal.image = 0
    /\ modal.preloaded = {0, 1, 2}

\* ------------------------------------------------- likes: the optimistic count
\* C28: a click on a like button flips the flag and shows prevCount + 1 when
\* it turns the like on, max(0, prevCount - 1) when it turns it off; with
\* server counts that are not negative the count shown is never negative.
C28_OptimisticCount ==
    /\ [](\A p \in Posts : likeCount[p] >= 0)
    /\ [][\A b \in Buttons :
            ClickLike(b) =>
              /\ pressed'[b] = ~pressed[b]
              /\ likeCount'[PostOf(b)] =
                    IF pressed[b]
                      THEN (IF likeCount[PostOf(b)] >= 1 THEN likeCount[PostOf(b)] - 1 ELSE 0)
                      ELSE likeCount[PostOf(b)] + 1]_vars

\* the like was shown on both buttons with the count 1; a click on likeBtn
\* made it 0, and the click on dataBtn that followed left it at 0
C28_Witness ==
    /\ variant = "part_000"
    /\ ended = "dataBtn" /\ toasted = ""
    /\ hnd["likeBtn"].pc = "await"
    /\ ~pressed["likeBtn"] /\ ~pressed["dataBtn"]
    /\ likeCount["p1"] = 0 /\ likes["p1"] = <<"u1">>

\* ------------------------------------------------ the modal: the rotation
\* a populateModal timer runs in this step
Populated == Len(modal'.pending) < Len(modal.pending)

\* C29: rotateState is always one of 0..3 and a rotate click advances it by
\* one modulo 4; when the image of a navigation (openModal, nextImage,
\* prevImage) is put in the modal, and when the modal is closed, the rotation
\* is 0; nothing but a rotate click turns the image.
C29_Rotation ==
    /\ [](modal.rotateState \in 0..3)
    /\ [][/\ Rotate => modal'.rotateState = (modal.rotateState + 1) % 4
          /\ Populated => (modal'.rotateState = 0 /\ modal'.image = Head(modal.pending))
          /\ Close => modal'.rotateState = 0
          /\ modal'.rotateState # modal.rotateState =>
               (modal'.rotateState = 0 \/ modal' = [modal EXCEPT !.rotateState = (@ + 1) % 4])
         ]_vars

\* the second item was put in the modal (rotation 0) and the rotate button
\* clicked three times since
C29_Witness ==
    /\ modal.show /\ modal.rotateState = 3
    /\ modal.image = 1 /\ modal.currentIndex = 1
    /\ modal.pending = <<>> /\ modal.length = 2

\* ------------------------------------------------ the modal: click zones
LeftThird(x, width) == 3 * x < width
RightThird(x, width) == 3 * x > 2 * width

\* C30: a click in the image area goes to the previous item exactly when it
\* lies in the left third of the width, to the next item exactly when it lies
\* in the right third, and changes nothing in the middle third.
C30_ClickZones ==
    [][\A x \in ClickXs :
         ClickImage(x, AreaWidth) =>
           LET m == [modal EXCEPT !.click = [x |-> x, width |-> AreaWidth]]
           IN  modal' = CASE LeftThird(x, AreaWidth) -> prevImage(m)
                          [] RightThird(x, AreaWidth) -> nextImage(m)
                          [] OTHER -> m]_vars

\* a click at pixel 17 of 50, in the middle third, went from the second
\* item to the first
C30_Witness ==
    /\ modal.click = [x |-> 17, width |-> AreaWidth]
    /\ modal.show /\ modal.currentIndex = 0
    /\ modal.pending = <<1, 0>> /\ modal.image = NoImage
====
